---- MODULE Spec2Model ----
(***************************************************************************)
(* A model of dump_youtube_subtitle: the caption acquisition scripts        *)
(* ytsub*.py.  The repository holds some twenty rewrites of one pipeline;   *)
(* the model keeps the variants apart by name (my04, my07, my28, ...).      *)
(*                                                                         *)
(*   SpecBatch   main + process_video: the batch run under the semaphore    *)
(*   SpecChain   fetch_transcript: the chain of acquisition strategies      *)
(*   SpecNorm    the formatters and parsers that build transcript lines    *)
(*   SpecSelect  the track selection of fetch_transcript                    *)
(*   SpecScratch fetch_transcript_cli: the scratch directory .tmp_<id>      *)
(*   SpecStamp   the timestamp computations of the formatters               *)
(*   SpecCli     one pipeline of the external-tool strategy, to the export  *)
(*   SpecExport  the pipelines from the acquisition to the output file     *)
(*                                                                         *)
(* Every specification owns a group of variables and leaves the other       *)
(* groups at their idle values.                                             *)
(***************************************************************************)
EXTENDS Integers, Sequences, FiniteSets, TLC

VARIABLES
    \* ---- batch run (main, process_video) ----
    variant,      \* which script runs the batch
    limit,        \* max_concurrent handed to asyncio.Semaphore
    semaphore,    \* the semaphore's free permits (Semaphore._value)
    pc,           \* pc[i]: where the process_video task of video i is
    files,        \* files[i]: the output file <title>_<id>.md of video i
    mainpc,       \* where main (and asyncio.run around it) is
    interrupted,  \* the run was stopped from outside (KeyboardInterrupt)
    \* ---- formatters and parsers ----
    nInput,       \* the payload handed to a formatter: [kind, data]
    nFn,          \* the formatter that was applied ("" before)
    nOutput,      \* the transcript lines it built
    \* ---- track selection ----
    sTracks,      \* the TranscriptList of the video, in listing order
    sFn,          \* the script whose selection was applied ("" before)
    sSel,         \* the selection: [found, track, translate]
    \* ---- acquisition chain (fetch_transcript) ----
    cVariant,     \* which script's fetch_transcript runs
    cEnv,         \* what the upstream service answers to each request
    cpc,          \* where fetch_transcript is
    cSel,         \* the track selected from the listing
    cCalls,       \* the upstream requests made so far, in order
    cRet,         \* the value returned: [kind] None, text (lines) or raw
    \* ---- external-tool strategy (fetch_transcript_cli) ----
    tLimit,       \* max_concurrent of the run
    tIds,         \* tIds[p]: the video identifier pipeline p works on
    tDir,         \* tDir[d]: the scratch directory .tmp_<d> on disk
    tpc,          \* tpc[p]: where fetch_transcript_cli of pipeline p is
    tFresh,       \* tFresh[p]: p made its scratch directory, empty
    tRet,         \* tRet[p]: what the call returned ("" before)
    tDirAtExit,   \* tDirAtExit[p]: .tmp_<id> existed when the call ended
    \* ---- timestamps ----
    kStartMs,     \* the start offset of a cue, in milliseconds
    kFn,          \* the computation that was applied ("" before)
    kFields,      \* the digits of the hours, minutes and seconds it printed
    \* ---- one pipeline of the external-tool strategy ----
    xVariant,     \* which script runs the pipeline
    xpc,          \* where process_video of the pipeline is
    xExit,        \* the exit status of the tool's caption download
    xFiles,       \* the files the tool wrote under .tmp_<id>
    xListing,     \* what os.listdir returned
    xSub,         \* sub_file: the file selected (<<>> for None)
    xContent,     \* the content read from sub_file: [read, blocks]
    xRet,         \* the transcript returned by the strategy
    xExported,    \* the output file <title>_<id>.md was written
    \* ---- the pipelines from the acquisition to the output file ----
    eVariant,     \* which script runs the batch
    epc,          \* epc[i]: where the process_video task of video i is
    eSem,         \* the semaphore's free permits
    eRet,         \* eRet[i]: the transcript the acquisition of i returned
    eFile,        \* eFile[i]: the output file of video i
    eClient,      \* the shared httpx.AsyncClient of my22: open or closed
    eMain,        \* where main (and asyncio.run around it) is
    eRefused      \* eRefused[i]: the GET of i was called on the closed client

batchVars == <<variant, limit, semaphore, pc, files, mainpc, interrupted>>
normVars == <<nInput, nFn, nOutput>>
selVars == <<sTracks, sFn, sSel>>
chainVars == <<cVariant, cEnv, cpc, cSel, cCalls, cRet>>

scratchVars == <<tLimit, tIds, tDir, tpc, tFresh, tRet, tDirAtExit>>

stampVars == <<kStartMs, kFn, kFields>>

cliVars == <<xVariant, xpc, xExit, xFiles, xListing, xSub, xContent, xRet, xExported>>

exportVars == <<eVariant, epc, eSem, eRet, eFile, eClient, eMain, eRefused>>

vars == <<batchVars, normVars, selVars, chainVars, scratchVars, stampVars, cliVars, exportVars>>

\* The idle values of each group, for the specifications that do not use it.
BatchIdle ==
    /\ variant = ""
    /\ limit = 0
    /\ semaphore = 0
    /\ pc = <<>>
    /\ files = <<>>
    /\ mainpc = ""
    /\ interrupted = FALSE

NormIdle ==
    /\ nInput = [kind |-> "", data |-> <<>>]
    /\ nFn = ""
    /\ nOutput = <<>>

SelIdle ==
    /\ sTracks = <<>>
    /\ sFn = ""
    /\ sSel = [found |-> FALSE]

ChainIdle ==
    /\ cVariant = ""
    /\ cEnv = [kind |-> ""]
    /\ cpc = ""
    /\ cSel = [found |-> FALSE]
    /\ cCalls = <<>>
    /\ cRet = [kind |-> ""]

ScratchIdle ==
    /\ tLimit = 0
    /\ tIds = <<>>
    /\ tDir = <<>>
    /\ tpc = <<>>
    /\ tFresh = <<>>
    /\ tRet = <<>>
    /\ tDirAtExit = <<>>

StampIdle ==
    /\ kStartMs = 0
    /\ kFn = ""
    /\ kFields = <<>>

CliIdle ==
    /\ xVariant = ""
    /\ xpc = ""
    /\ xExit = 0
    /\ xFiles = {}
    /\ xListing = <<>>
    /\ xSub = <<>>
    /\ xContent = [read |-> FALSE]
    /\ xRet = [kind |-> ""]
    /\ xExported = FALSE

ExportIdle ==
    /\ eVariant = ""
    /\ epc = <<>>
    /\ eSem = 0
    /\ eRet = <<>>
    /\ eFile = <<>>
    /\ eClient = ""
    /\ eMain = ""
    /\ eRefused = <<>>

\* ------------------------------------------------------------------ bounds
NumVideos == 3
MaxConcurrent == 2

Videos == 1..NumVideos

(***************************************************************************)
(*                       The batch run: main, process_video                *)
(***************************************************************************)
BatchVariants == {"my04", "my28", "my26"}

\* process_video wraps the file write in try/except Exception (my28 160-165,
\* my26 178-183); my04 88-101 does not.
WriteGuarded(v) == v \in {"my28", "my26"}

\* fetch_transcript_cli removes and creates the scratch directory before its
\* try block (my28 67-68, my26 71-72): an OSError there leaves the function.
\* fetch_transcript of my04 is one try/except Exception: it never raises.
FetchMayRaise(v) == v \in {"my28", "my26"}

\* A task holds a permit from the acquisition of the semaphore to the end of
\* the async with block.
Holding == {"fetch", "open", "write"}
Terminal == {"nosub", "exported", "writeerr", "raised", "cancelled"}

Active == {i \in Videos : pc[i] \in Holding}

BatchInit ==
    /\ variant \in BatchVariants
    /\ limit \in 1..MaxConcurrent
    /\ semaphore = limit
    /\ pc = [i \in Videos |-> "wait"]
    /\ files = [i \in Videos |-> "absent"]
    /\ mainpc = "gather"
    /\ interrupted = FALSE
    /\ NormIdle
    /\ SelIdle
    /\ ChainIdle
    /\ ScratchIdle
    /\ StampIdle
    /\ CliIdle
    /\ ExportIdle

\* (mutant of SemAcquire: the task enters without waiting for a free permit)
SemAcquire_NoWait(i) ==
    /\ pc[i] = "wait"
    /\ semaphore' = semaphore - 1
    /\ pc' = [pc EXCEPT ![i] = "fetch"]
    /\ UNCHANGED <<variant, limit, files, mainpc, interrupted, normVars, selVars, chainVars, scratchVars, stampVars, cliVars, exportVars>>

\* async with self.semaphore: Semaphore.acquire returns once a permit is free.
SemAcquire(i) ==
    /\ pc[i] = "wait"
    /\ semaphore > 0
    /\ semaphore' = semaphore - 1
    /\ pc' = [pc EXCEPT ![i] = "fetch"]
    /\ UNCHANGED <<variant, limit, files, mainpc, interrupted, normVars, selVars, chainVars, scratchVars, stampVars, cliVars, exportVars>>

\* transcript = await self.fetch_transcript(...): a transcript, or None (or the
\* empty string), in which case process_video returns and releases the permit.
FetchReturn(i) ==
    /\ pc[i] = "fetch"
    /\ \/ /\ pc' = [pc EXCEPT ![i] = "open"]
          /\ UNCHANGED semaphore
       \/ /\ pc' = [pc EXCEPT ![i] = "nosub"]
          /\ semaphore' = semaphore + 1
    /\ UNCHANGED <<variant, limit, files, mainpc, interrupted, normVars, selVars, chainVars, scratchVars, stampVars, cliVars, exportVars>>

\* The acquisition raises out of process_video (the scratch directory could
\* not be removed or created): the async with block releases the permit.
FetchRaise(i) ==
    /\ pc[i] = "fetch"
    /\ FetchMayRaise(variant)
    /\ pc' = [pc EXCEPT ![i] = "raised"]
    /\ semaphore' = semaphore + 1
    /\ UNCHANGED <<variant, limit, files, mainpc, interrupted, normVars, selVars, chainVars, scratchVars, stampVars, cliVars, exportVars>>

\* Where an exception of the write ends: caught and printed inside
\* process_video, or raised out of the task.
WriteFailure(v) == IF WriteGuarded(v) THEN "writeerr" ELSE "raised"

\* async with aiofiles.open(full_path, "w"): the file is created (or cut to
\* length 0) by the open; an OSError (bad name, no space) creates nothing.
OpenFile(i) ==
    /\ pc[i] = "open"
    /\ \/ /\ pc' = [pc EXCEPT ![i] = "write"]
          /\ files' = [files EXCEPT ![i] = "empty"]
          /\ UNCHANGED semaphore
       \/ /\ pc' = [pc EXCEPT ![i] = WriteFailure(variant)]
          /\ semaphore' = semaphore + 1
          /\ UNCHANGED files
    /\ UNCHANGED <<variant, limit, mainpc, interrupted, normVars, selVars, chainVars, scratchVars, stampVars, cliVars, exportVars>>

\* await f.write(content) and the close of the async with block: the whole
\* content reaches the file, or the write raises and the file stays as opened.
WriteFile(i) ==
    /\ pc[i] = "write"
    /\ \/ /\ pc' = [pc EXCEPT ![i] = "exported"]
          /\ files' = [files EXCEPT ![i] = "complete"]
       \/ /\ pc' = [pc EXCEPT ![i] = WriteFailure(variant)]
          /\ UNCHANGED files
    /\ semaphore' = semaphore + 1
    /\ UNCHANGED <<variant, limit, mainpc, interrupted, normVars, selVars, chainVars, scratchVars, stampVars, cliVars, exportVars>>

\* await asyncio.gather(*tasks), return_exceptions left False: gather returns
\* when every task has returned ...
GatherReturn ==
    /\ mainpc = "gather"
    /\ \A i \in Videos : pc[i] \in Terminal \ {"raised"}
    /\ mainpc' = "returned"
    /\ UNCHANGED <<variant, limit, semaphore, pc, files, interrupted, normVars, selVars, chainVars, scratchVars, stampVars, cliVars, exportVars>>

\* ... and hands the first exception of a task to main at once, which no
\* script catches around the gather: main ends while the other tasks run.
GatherRaise ==
    /\ mainpc = "gather"
    /\ \E i \in Videos : pc[i] = "raised"
    /\ mainpc' = "raised"
    /\ UNCHANGED <<variant, limit, semaphore, pc, files, interrupted, normVars, selVars, chainVars, scratchVars, stampVars, cliVars, exportVars>>

\* The user stops the run (Ctrl-C; my26 220-223 expects it): main is ended.
Interrupt ==
    /\ mainpc = "gather"
    /\ mainpc' = "interrupted"
    /\ interrupted' = TRUE
    /\ UNCHANGED <<variant, limit, semaphore, pc, files, normVars, selVars, chainVars, scratchVars, stampVars, cliVars, exportVars>>

\* asyncio.run, once main has ended, cancels every task still pending; the
\* CancelledError is thrown into the task at the await it is suspended on.  A
\* job already handed to the executor thread may or may not have run.
CancelTask(i) ==
    /\ mainpc \in {"raised", "interrupted"}
    /\ pc[i] \notin Terminal
    /\ pc' = [pc EXCEPT ![i] = "cancelled"]
    /\ semaphore' = IF pc[i] \in Holding THEN semaphore + 1 ELSE semaphore
    /\ \/ /\ pc[i] \in {"wait", "fetch"}
          /\ UNCHANGED files
       \/ /\ pc[i] = "open"
          /\ \E f \in {"absent", "empty"} : files' = [files EXCEPT ![i] = f]
       \/ /\ pc[i] = "write"
          /\ \E f \in {"empty", "complete"} : files' = [files EXCEPT ![i] = f]
    /\ UNCHANGED <<variant, limit, mainpc, interrupted, normVars, selVars, chainVars, scratchVars, stampVars, cliVars, exportVars>>

process_video(i) ==
    \/ SemAcquire(i)
    \/ FetchReturn(i)
    \/ FetchRaise(i)
    \/ OpenFile(i)
    \/ WriteFile(i)

BatchNext ==
    \/ \E i \in Videos : process_video(i)
    \/ GatherReturn
    \/ GatherRaise
    \/ Interrupt
    \/ \E i \in Videos : CancelTask(i)

SpecBatch == BatchInit /\ [][BatchNext]_vars

\* The scheduling of the batch run: the event loop resumes every task that can
\* go on; asyncio.Semaphore wakes its waiters in turn (strong fairness of the
\* acquisition); every awaited call of a task ends, by returning or raising;
\* asyncio.run cancels what is pending once main has ended.  Nothing makes
\* the user stop the run.
BatchFairness ==
    /\ \A i \in Videos :
           /\ SF_vars(SemAcquire(i))
           /\ WF_vars(FetchReturn(i) \/ FetchRaise(i))
           /\ WF_vars(OpenFile(i))
           /\ WF_vars(WriteFile(i))
           /\ WF_vars(CancelTask(i))
    /\ WF_vars(GatherReturn)
    /\ WF_vars(GatherRaise)

SpecBatchLive == BatchInit /\ [][BatchNext]_vars /\ BatchFairness

(***************************************************************************)
(*                         Claims on the batch run                         *)
(***************************************************************************)

\* C1: in every reachable state of a batch run with concurrency limit N, at
\* most N pipelines are between acquiring the gate and releasing it.
C1_AtMostNActive == Cardinality(Active) <= limit

\* C1's case: the gate is full while another pipeline waits to be admitted.
C1_GateFullWitness ==
    /\ Cardinality(Active) = limit
    /\ \E i \in Videos : pc[i] = "wait"

\* C2 (as claimed): in the batch run of my04, as long as nobody stops the run,
\* a failure in one identifier's pipeline cancels no other identifier's
\* pipeline.
C2_FailureCancelsNoOther ==
    (variant = "my04" /\ ~interrupted) => \A i \in Videos : pc[i] # "cancelled"

\* C6 (as claimed): an identifier whose pipeline was cancelled has either the
\* complete transcript in its output file or no output file.
C6_CancelledOutputCompleteOrAbsent ==
    \A i \in Videos : pc[i] = "cancelled" => files[i] \in {"absent", "complete"}

\* Every identifier has its one outcome (exported, acquisition failed, write
\* error), reached through the gate, and every permit is free again.
OneOutcomeEach ==
    /\ \A i \in Videos : pc[i] \in {"exported", "nosub", "writeerr"}
    /\ semaphore = limit

\* C12 (as claimed): in a batch run of my28 that nobody stops, with every
\* awaited call ending, eventually every identifier's pipeline has been
\* admitted and has finished with its outcome, and all N permits are free.
C12_EveryPipelineFinishes ==
    variant = "my28" => <>(interrupted \/ OneOutcomeEach)

(***************************************************************************)
(*              Formatters and parsers: payload -> transcript lines        *)
(*                                                                         *)
(* A text is a sequence of one-character strings.  A transcript is the      *)
(* sequence of its lines, [ts, text], which the code joins with "\n"; the   *)
(* empty transcript is the empty string of the code.                       *)
(***************************************************************************)
MaxCues == 3

Whitespace == {" ", "\n"}

\* str.replace('\n', ' ')
ReplaceNewline(t) == [i \in 1..Len(t) |-> IF t[i] = "\n" THEN " " ELSE t[i]]

\* str.strip()
RECURSIVE Strip(_)
Strip(t) ==
    IF t = <<>> THEN <<>>
    ELSE IF Head(t) \in Whitespace THEN Strip(Tail(t))
    ELSE IF t[Len(t)] \in Whitespace THEN Strip(SubSeq(t, 1, Len(t) - 1))
    ELSE t

\* "".join(texts)
RECURSIVE Concat(_)
Concat(ts) == IF ts = <<>> THEN <<>> ELSE Head(ts) \o Concat(Tail(ts))

\* (mutant of format_timestamp: the hours wrap at 24, as a time of day)
format_timestamp_Wrap24(seconds) ==
    <<((seconds \div 60) \div 60) % 24, (seconds \div 60) % 60, seconds % 60>>

\* format_timestamp: m, s = divmod(int(seconds), 60); h, m = divmod(m, 60)
format_timestamp(seconds) ==
    LET m0 == seconds \div 60
        s  == seconds % 60
    IN  <<m0 \div 60, m0 % 60, s>>

\* ytsub_ag01 77-78: h, m = divmod(int(start), 3600); m, s_val = divmod(m, 60)
TimestampBy3600(start) ==
    LET h  == start \div 3600
        m0 == start % 3600
    IN  <<h, m0 \div 60, m0 % 60>>

\* ytsub_ag01 85: start//3600, (start%3600)//60, start%60
TimestampInline(start) == <<start \div 3600, (start % 3600) \div 60, start % 60>>

Line(ts, text) == [ts |-> ts, text |-> text]

\* The loop of get_transcript (ytsub.py 102-108): one line per entry.
get_transcript_lines(data) ==
    [i \in 1..Len(data) |->
        Line(format_timestamp(data[i].start), ReplaceNewline(data[i].text))]

\* fetch_transcript_api, FetchedTranscript branch (ytsub_ag01 71-81): a
\* snippet whose text is empty after replace and strip gives no line.
RECURSIVE fetch_transcript_api_snippets(_)
fetch_transcript_api_snippets(snippets) ==
    IF snippets = <<>> THEN <<>>
    ELSE LET s    == Head(snippets)
             text == Strip(ReplaceNewline(s.text))
             rest == fetch_transcript_api_snippets(Tail(snippets))
         IN  IF text # <<>>
             THEN <<Line(TimestampBy3600(s.start), text)>> \o rest
             ELSE rest

\* fetch_transcript_api, list[dict] branch (ytsub_ag01 84-87).
fetch_transcript_api_list(data) ==
    [i \in 1..Len(data) |->
        Line(TimestampInline(data[i].start), ReplaceNewline(data[i].text))]

\* ytsub_my25 94: start//3600000, (start%3600000)//60000, (start%60000)//1000
TimestampFromMs(start) ==
    <<start \div 3600000, (start % 3600000) \div 60000, (start % 60000) \div 1000>>

\* parse_json3 of ytsub_my25 (89-97): as the one of ytsub_my22, with the
\* timestamp taken from the milliseconds.
RECURSIVE parse_json3_my25(_)
parse_json3_my25(events) ==
    IF events = <<>> THEN <<>>
    ELSE LET event == Head(events)
             rest  == parse_json3_my25(Tail(events))
         IN  IF ~event.hasSegs THEN rest
             ELSE LET text == Strip(Concat(event.segs))
                  IN  IF text # <<>>
                      THEN <<Line(TimestampFromMs(event.tStartMs), text)>> \o rest
                      ELSE rest

\* (mutant of parse_json3: a line is put in front of the lines before it)
RECURSIVE parse_json3_Prepend(_)
parse_json3_Prepend(events) ==
    IF events = <<>> THEN <<>>
    ELSE LET event == Head(events)
             rest  == parse_json3_Prepend(Tail(events))
         IN  IF ~event.hasSegs THEN rest
             ELSE LET text == Strip(Concat(event.segs))
                  IN  IF text # <<>>
                      THEN rest \o
                           <<Line(format_timestamp(event.tStartMs \div 1000), text)>>
                      ELSE rest

\* (mutant of parse_json3: the joined text is not trimmed)
RECURSIVE parse_json3_NoStrip(_)
parse_json3_NoStrip(events) ==
    IF events = <<>> THEN <<>>
    ELSE LET event == Head(events)
             rest  == parse_json3_NoStrip(Tail(events))
         IN  IF ~event.hasSegs THEN rest
             ELSE LET text == Concat(event.segs)
                  IN  IF text # <<>>
                      THEN <<Line(format_timestamp(event.tStartMs \div 1000), text)>>
                           \o rest
                      ELSE rest

\* parse_json3 (ytsub_my22 110-122): an event without 'segs' is skipped; a
\* segment without 'utf8' counts as ''; tStartMs // 1000 seconds.
RECURSIVE parse_json3(_)
parse_json3(events) ==
    IF events = <<>> THEN <<>>
    ELSE LET event == Head(events)
             rest  == parse_json3(Tail(events))
         IN  IF ~event.hasSegs THEN rest
             ELSE LET text == Strip(Concat(event.segs))
                  IN  IF text # <<>>
                      THEN <<Line(format_timestamp(event.tStartMs \div 1000), text)>>
                           \o rest
                      ELSE rest

\* (mutant of DedupLines: a text is dropped when any kept line has it)
RECURSIVE DedupLinesSeen(_, _)
DedupLinesSeen(lines, seen) ==
    IF lines = <<>> THEN <<>>
    ELSE IF Head(lines).text \notin seen
         THEN <<Head(lines)>>
              \o DedupLinesSeen(Tail(lines), seen \cup {Head(lines).text})
         ELSE DedupLinesSeen(Tail(lines), seen)

DedupLines_Global(lines, last_text) == DedupLinesSeen(lines, {last_text})

\* The last loop of clean_vtt (ytsub_my28 137-143, ytsub_my31 129-135):
\* last_text = ""; a line is appended when its text differs from last_text,
\* which then becomes that text.
RECURSIVE DedupLines(_, _)
DedupLines(lines, last_text) ==
    IF lines = <<>> THEN <<>>
    ELSE IF Head(lines).text # last_text
         THEN <<Head(lines)>> \o DedupLines(Tail(lines), Head(lines).text)
         ELSE DedupLines(Tail(lines), last_text)

\* ---- clean_vtt on texts.  A text is a sequence of tokens: a character, or
\* one of "&nbsp;" (the entity), "line:" (the name of a positioning attribute
\* with its colon, as in line:0% or align:start), "00:" (two digits and a
\* colon) and "00:01.000", "00:02.000" (MM:SS.mmm).

\* (mutant of StripTags: only a tag with no "<" inside it is removed)
RECURSIVE StripTags_Innermost(_)
StripTags_Innermost(t) ==
    IF t = <<>> THEN <<>>
    ELSE LET closers == {j \in 2..Len(t) : t[j] \in {"<", ">"}}
             first   == CHOOSE j \in closers : \A k \in closers : j <= k
         IN  IF Head(t) = "<" /\ closers # {} /\ first > 2 /\ t[first] = ">"
             THEN StripTags_Innermost(SubSeq(t, first + 1, Len(t)))
             ELSE <<Head(t)>> \o StripTags_Innermost(Tail(t))

\* re.sub(r'<[^>]+>', '', content): from a "<" to the first ">" after it, when
\* at least one token lies between them.
RECURSIVE StripTags(_)
StripTags(t) ==
    IF t = <<>> THEN <<>>
    ELSE LET closers == {j \in 2..Len(t) : t[j] = ">"}
             first   == CHOOSE j \in closers : \A k \in closers : j <= k
         IN  IF Head(t) = "<" /\ closers # {} /\ first > 2
             THEN StripTags(SubSeq(t, first + 1, Len(t)))
             ELSE <<Head(t)>> \o StripTags(Tail(t))

\* content.replace('&nbsp;', ' ')
ReplaceNbsp(t) == [i \in 1..Len(t) |-> IF t[i] = "&nbsp;" THEN " " ELSE t[i]]

\* The tokens after the leading run of non-whitespace tokens.
RECURSIVE AfterWord(_)
AfterWord(t) ==
    IF t = <<>> \/ Head(t) \in Whitespace THEN t ELSE AfterWord(Tail(t))

\* re.sub(r'(align|kind|position|line):[^\s]+', '', content)
RECURSIVE RemoveAttrs(_)
RemoveAttrs(t) ==
    IF t = <<>> THEN <<>>
    ELSE IF Head(t) = "line:" /\ Len(t) >= 2 /\ t[2] \notin Whitespace
         THEN RemoveAttrs(AfterWord(Tail(t)))
         ELSE <<Head(t)>> \o RemoveAttrs(Tail(t))

\* str.split('\n'): the pieces between the newlines, empty ones included.
RECURSIVE SplitNewline(_, _)
SplitNewline(t, piece) ==
    IF t = <<>> THEN <<piece>>
    ELSE IF Head(t) = "\n" THEN <<piece>> \o SplitNewline(Tail(t), <<>>)
    ELSE SplitNewline(Tail(t), Append(piece, Head(t)))

\* " ".join(parts)
RECURSIVE JoinSpace(_)
JoinSpace(parts) ==
    IF parts = <<>> THEN <<>>
    ELSE IF Len(parts) = 1 THEN parts[1]
    ELSE parts[1] \o <<" ">> \o JoinSpace(Tail(parts))

StripEach(parts) == [i \in 1..Len(parts) |-> Strip(parts[i])]

\* " ".join([l.strip() for l in content.splitlines() if l.strip()])
JoinLines(content) ==
    JoinSpace(SelectSeq(StripEach(SplitNewline(content, <<>>)), LAMBDA l : l # <<>>))

\* clean_vtt of ytsub_my28, lines 126-132, on the content of a block.
CleanText(content) ==
    JoinLines(RemoveAttrs(ReplaceNbsp(StripTags(content))))

\* Lines 126-134 on the (ts, content) pairs of the blocks: a block whose
\* clean_text is empty gives no line.
RECURSIVE CleanCues(_)
CleanCues(cues) ==
    IF cues = <<>> THEN <<>>
    ELSE LET clean_text == CleanText(Head(cues).text)
         IN  IF clean_text # <<>>
             THEN <<Line(Head(cues).ts, clean_text)>> \o CleanCues(Tail(cues))
             ELSE CleanCues(Tail(cues))

\* Lines 126-143: the cleaning of the texts, then the duplicate suppression.
clean_vtt_cues(cues) == DedupLines(CleanCues(cues), <<>>)

\* ---- clean_vtt on a timed-text payload, a sequence of tokens with "\n".
Stamps == {"00:01.000", "00:02.000"}
StampOf(token) == IF token = "00:01.000" THEN <<0, 0, 1>> ELSE <<0, 0, 2>>

\* The tokens a line starts with when it matches ^\d{2}:
ClockStarts == {"00:"} \cup Stamps

\* "\n".join(pieces)
RECURSIVE JoinNewline(_)
JoinNewline(pieces) ==
    IF pieces = <<>> THEN <<>>
    ELSE IF Len(pieces) = 1 THEN pieces[1]
    ELSE pieces[1] \o <<"\n">> \o JoinNewline(Tail(pieces))

\* The lines that start with one of the tokens and end in a newline (every
\* piece but the last) are removed.
RECURSIVE DropLines(_, _)
DropLines(pieces, starts) ==
    IF Len(pieces) <= 1 THEN pieces
    ELSE IF Head(pieces) # <<>> /\ Head(pieces)[1] \in starts
         THEN DropLines(Tail(pieces), starts)
         ELSE <<Head(pieces)>> \o DropLines(Tail(pieces), starts)

\* re.sub(r'^WEBVTT.*?\n', '', text, flags=re.IGNORECASE | re.MULTILINE) and
\* re.sub(r'^\d{2}:.*?\n', '', block, flags=re.MULTILINE)
RemoveLines(t, starts) == JoinNewline(DropLines(SplitNewline(t, <<>>), starts))

\* re.split(r'\n\s*\n', text): a block ends at a newline that is followed,
\* over whitespace only, by another newline; the separator runs to the last
\* such newline.
RECURSIVE SplitBlocksMy28(_)
SplitBlocksMy28(t) ==
    LET Ends(i) == {j \in (i + 1)..Len(t) :
                       t[j] = "\n" /\ \A k \in (i + 1)..(j - 1) : t[k] \in Whitespace}
        starts  == {i \in 1..Len(t) : t[i] = "\n" /\ Ends(i) # {}}
        i       == CHOOSE x \in starts : \A y \in starts : x <= y
        j       == CHOOSE x \in Ends(i) : \A y \in Ends(i) : y <= x
    IN  IF starts = {} THEN <<t>>
        ELSE <<SubSeq(t, 1, i - 1)>> \o SplitBlocksMy28(SubSeq(t, j + 1, Len(t)))

\* re.search(r'(\d{2}:\d{2}:\d{2})[.,]\d{3}', block): the first HH:MM:SS.mmm
\* anywhere in the block.
TimeMatch(block) ==
    LET hits == {i \in 1..(Len(block) - 1) : block[i] = "00:" /\ block[i + 1] \in Stamps}
        i    == CHOOSE x \in hits : \A y \in hits : x <= y
    IN  IF hits = {} THEN [found |-> FALSE]
        ELSE [found |-> TRUE, ts |-> StampOf(block[i + 1])]

\* clean_vtt of ytsub_my28, lines 118-134, on the blocks.
RECURSIVE BlockLinesMy28(_)
BlockLinesMy28(blocks) ==
    IF blocks = <<>> THEN <<>>
    ELSE LET block      == Head(blocks)
             time_match == TimeMatch(block)
             content    == Strip(RemoveLines(block, ClockStarts))
             clean_text == CleanText(content)
             rest       == BlockLinesMy28(Tail(blocks))
         IN  IF time_match.found /\ clean_text # <<>>
             THEN <<Line(time_match.ts, clean_text)>> \o rest
             ELSE rest

\* clean_vtt of ytsub_my28 (111-143).
clean_vtt_my28(text) ==
    DedupLines(BlockLinesMy28(SplitBlocksMy28(RemoveLines(text, {"WEBVTT"}))), <<>>)

\* clean_vtt of ytsub_my31, lines 119-127, on the blocks: as ytsub_my28
\* without the removal of the positioning attributes.  Its time pattern
\* r'(\d{2}:\d{2}:\d{2})' finds, on these payloads, what TimeMatch finds.
RECURSIVE BlockLinesMy31(_)
BlockLinesMy31(blocks) ==
    IF blocks = <<>> THEN <<>>
    ELSE LET block      == Head(blocks)
             time_match == TimeMatch(block)
             content    == Strip(RemoveLines(block, ClockStarts))
             clean_text == JoinLines(ReplaceNbsp(StripTags(content)))
             rest       == BlockLinesMy31(Tail(blocks))
         IN  IF time_match.found /\ clean_text # <<>>
             THEN <<Line(time_match.ts, clean_text)>> \o rest
             ELSE rest

\* clean_vtt of ytsub_my31 (115-135).
clean_vtt_my31(text) ==
    DedupLines(BlockLinesMy31(SplitBlocksMy28(RemoveLines(text, {"WEBVTT"}))), <<>>)

\* re.sub(r'WEBVTT[\s\S]*?\n\n', '', vtt_text): from WEBVTT to the first
\* empty line after it.
RECURSIVE RemoveHeaderMy25(_)
RemoveHeaderMy25(t) ==
    LET ends == {j \in 2..(Len(t) - 1) : t[j] = "\n" /\ t[j + 1] = "\n"}
        j    == CHOOSE x \in ends : \A y \in ends : x <= y
    IN  IF t = <<>> THEN <<>>
        ELSE IF Head(t) = "WEBVTT" /\ ends # {}
             THEN RemoveHeaderMy25(SubSeq(t, j + 2, Len(t)))
             ELSE <<Head(t)>> \o RemoveHeaderMy25(Tail(t))

\* HH:MM:SS.mmm --> HH:MM:SS.mmm at the start of t.
IsTiming(t) ==
    /\ Len(t) >= 7
    /\ t[1] = "00:" /\ t[2] \in Stamps
    /\ t[3] = " " /\ t[4] = "-->" /\ t[5] = " "
    /\ t[6] = "00:" /\ t[7] \in Stamps

\* The tokens from the next newline on.
RECURSIVE FromNewline(_)
FromNewline(t) ==
    IF t = <<>> \/ Head(t) = "\n" THEN t ELSE FromNewline(Tail(t))

\* re.sub(r'(\d{2}:\d{2}:\d{2}\.\d{3} --> \d{2}:\d{2}:\d{2}\.\d{3}).*', r'\1',
\* content): what follows the timing on its line is cut.
RECURSIVE CutSettings(_)
CutSettings(t) ==
    IF t = <<>> THEN <<>>
    ELSE IF IsTiming(t)
         THEN SubSeq(t, 1, 7) \o CutSettings(FromNewline(SubSeq(t, 8, Len(t))))
         ELSE <<Head(t)>> \o CutSettings(Tail(t))

\* content.split('\n\n')
RECURSIVE SplitBlocksMy25(_, _)
SplitBlocksMy25(t, block) ==
    IF t = <<>> THEN <<block>>
    ELSE IF Len(t) >= 2 /\ t[1] = "\n" /\ t[2] = "\n"
         THEN <<block>> \o SplitBlocksMy25(SubSeq(t, 3, Len(t)), <<>>)
         ELSE SplitBlocksMy25(Tail(t), Append(block, Head(t)))

\* clean_vtt of ytsub_my25, lines 110-118, on the blocks: the time at the
\* start of the first line, the other lines joined as they are.
RECURSIVE BlockLinesMy25(_)
BlockLinesMy25(blocks) ==
    IF blocks = <<>> THEN <<>>
    ELSE LET parts == SplitNewline(Strip(Head(blocks)), <<>>)
             first == parts[1]
             text  == Strip(JoinSpace(Tail(parts)))
             rest  == BlockLinesMy25(Tail(blocks))
         IN  IF /\ Len(parts) >= 2
                /\ Len(first) >= 2 /\ first[1] = "00:" /\ first[2] \in Stamps
                /\ text # <<>>
             THEN <<Line(StampOf(first[2]), text)>> \o rest
             ELSE rest

\* clean_vtt of ytsub_my25 (99-119).
clean_vtt_my25(vtt_text) ==
    BlockLinesMy25(SplitBlocksMy25(StripTags(CutSettings(RemoveHeaderMy25(vtt_text))), <<>>))

\* ---- the inputs
A == <<"a">>
B == <<"b">>
SP == <<" ">>
NL == <<"\n">>

\* Texts of the entries of a fetched transcript.
EntryTexts == {<<>>, A, SP, NL, <<"a", "\n", "b">>, <<" ", "a", " ">>}
\* Start offsets in seconds (the code floors a float with int()).
Starts == {0, 3725}
Entries == [start : Starts, text : EntryTexts]

\* Segment lists of an event; <<>> as a segment is a segment without 'utf8'.
SegLists == {<<>>, <<A>>, <<NL>>, <<A, B>>, <<SP, A, NL>>, <<<<>>, SP>>}
StartsMs == {0, 61500}
Events ==
    [tStartMs : StartsMs, hasSegs : {TRUE}, segs : SegLists]
    \cup [tStartMs : StartsMs, hasSegs : {FALSE}, segs : {<<>>}]

\* (ts, clean_text) pairs as the block loop of clean_vtt appends them: the
\* text is non-empty (ytsub_my28 133), joined and trimmed (132).
CleanTexts == {<<"h", "i">>, <<"H", "i">>, <<"b", "y", "e">>}
CleanLines == [ts : 0..2, text : CleanTexts]

\* (ts, content) pairs of timed-text blocks, the content as it is in the
\* payload: tags, entities, several lines.
CueTexts ==
    { <<"a">>,
      <<"<", "b", ">", "a", "<", "/", "b", ">">>,
      <<"<", "a", "<", "b", ">", "c", ">">>,
      <<" ", "a", "\n", "b", "&nbsp;">>,
      <<"a", " ", "b">>,
      <<"b", " ", "line:", "x">>,
      <<"<", "b", ">", "\n">> }
Cues == [ts : {<<0, 0, 1>>, <<1, 2, 5>>}, text : CueTexts]

SeqsUpTo(S, n) == UNION {[1..k -> S] : k \in 0..n}

\* The lines of a timed-text payload: timings (with and without settings,
\* with and without the hours), texts.
Timing1 == <<"00:", "00:01.000", " ", "-->", " ", "00:", "00:02.000">>
Timing2 == <<"00:", "00:02.000", " ", "-->", " ", "00:", "00:02.000", " ", "line:", "x">>
TimingNoHours == <<"00:01.000", " ", "-->", " ", "00:02.000">>
Hello == <<"<", "b", ">", "h", "i", "<", "/", "b", ">">>

\* The blocks of a payload, each a sequence of lines.
VttBlocks ==
    { <<Timing1, Hello>>,
      <<Timing2, A, B>>,
      <<Timing2, <<"a", " ">>, B>>,
      <<Timing1, SP, A>>,
      <<Timing1, <<"00:", "a">>, B>>,
      <<Timing1>>,
      <<TimingNoHours, A>>,
      <<A>> }

\* The payload as text: the WEBVTT line and an empty line, then every block,
\* each line ended by a newline, each block followed by an empty line.
RECURSIVE RenderLines(_)
RenderLines(lines) ==
    IF lines = <<>> THEN <<>>
    ELSE Head(lines) \o <<"\n">> \o RenderLines(Tail(lines))

RECURSIVE RenderBlocks(_)
RenderBlocks(blocks) ==
    IF blocks = <<>> THEN <<>>
    ELSE RenderLines(Head(blocks)) \o <<"\n">> \o RenderBlocks(Tail(blocks))

RenderVtt(blocks) == <<"WEBVTT", "\n", "\n">> \o RenderBlocks(blocks)

NormInit ==
    /\ \/ \E d \in SeqsUpTo(Entries, MaxCues) : nInput = [kind |-> "entries", data |-> d]
       \/ \E d \in SeqsUpTo(Events, MaxCues) : nInput = [kind |-> "events", data |-> d]
       \/ \E d \in SeqsUpTo(CleanLines, MaxCues) : nInput = [kind |-> "lines", data |-> d]
       \/ \E d \in SeqsUpTo(Cues, MaxCues) : nInput = [kind |-> "cues", data |-> d]
       \/ \E d \in SeqsUpTo(VttBlocks, MaxCues) : nInput = [kind |-> "vtt", data |-> d]
    /\ nFn = ""
    /\ nOutput = <<>>
    /\ BatchIdle
    /\ SelIdle
    /\ ChainIdle
    /\ ScratchIdle
    /\ StampIdle
    /\ CliIdle
    /\ ExportIdle

\* get_transcript of ytsub.py on the fetched entries.
GetTranscript ==
    /\ nFn = ""
    /\ nInput.kind = "entries"
    /\ nFn' = "get_transcript"
    /\ nOutput' = get_transcript_lines(nInput.data)
    /\ UNCHANGED <<nInput, batchVars, selVars, chainVars, scratchVars, stampVars, cliVars, exportVars>>

\* fetch_transcript_api of ytsub_ag01 when api.fetch gave a FetchedTranscript.
FetchTranscriptApiSnippets ==
    /\ nFn = ""
    /\ nInput.kind = "entries"
    /\ nFn' = "fetch_transcript_api.snippets"
    /\ nOutput' = fetch_transcript_api_snippets(nInput.data)
    /\ UNCHANGED <<nInput, batchVars, selVars, chainVars, scratchVars, stampVars, cliVars, exportVars>>

\* fetch_transcript_api of ytsub_ag01 when api.fetch gave a list of dicts.
FetchTranscriptApiList ==
    /\ nFn = ""
    /\ nInput.kind = "entries"
    /\ nFn' = "fetch_transcript_api.list"
    /\ nOutput' = fetch_transcript_api_list(nInput.data)
    /\ UNCHANGED <<nInput, batchVars, selVars, chainVars, scratchVars, stampVars, cliVars, exportVars>>

\* parse_json3 on the events of a json3 payload.
ParseJson3 ==
    /\ nFn = ""
    /\ nInput.kind = "events"
    /\ nFn' = "parse_json3"
    /\ nOutput' = parse_json3(nInput.data)
    /\ UNCHANGED <<nInput, batchVars, selVars, chainVars, scratchVars, stampVars, cliVars, exportVars>>

\* The duplicate suppression of clean_vtt on the lines of its block loop.
CleanVttDedup ==
    /\ nFn = ""
    /\ nInput.kind = "lines"
    /\ nFn' = "clean_vtt"
    /\ nOutput' = DedupLines(nInput.data, <<>>)
    /\ UNCHANGED <<nInput, batchVars, selVars, chainVars, scratchVars, stampVars, cliVars, exportVars>>

\* parse_json3 of ytsub_my25 on the events of a json3 payload.
ParseJson3My25 ==
    /\ nFn = ""
    /\ nInput.kind = "events"
    /\ nFn' = "parse_json3.my25"
    /\ nOutput' = parse_json3_my25(nInput.data)
    /\ UNCHANGED <<nInput, batchVars, selVars, chainVars, scratchVars, stampVars, cliVars, exportVars>>

\* The cleaning and the duplicate suppression of clean_vtt on the (ts,
\* content) pairs of the blocks.
CleanVttCues ==
    /\ nFn = ""
    /\ nInput.kind = "cues"
    /\ nFn' = "clean_vtt.cues"
    /\ nOutput' = clean_vtt_cues(nInput.data)
    /\ UNCHANGED <<nInput, batchVars, selVars, chainVars, scratchVars, stampVars, cliVars, exportVars>>

\* clean_vtt of ytsub_my28 on a timed-text payload.
CleanVttMy28 ==
    /\ nFn = ""
    /\ nInput.kind = "vtt"
    /\ nFn' = "clean_vtt.my28"
    /\ nOutput' = clean_vtt_my28(RenderVtt(nInput.data))
    /\ UNCHANGED <<nInput, batchVars, selVars, chainVars, scratchVars, stampVars, cliVars, exportVars>>

\* clean_vtt of ytsub_my25 on a timed-text payload.
CleanVttMy25 ==
    /\ nFn = ""
    /\ nInput.kind = "vtt"
    /\ nFn' = "clean_vtt.my25"
    /\ nOutput' = clean_vtt_my25(RenderVtt(nInput.data))
    /\ UNCHANGED <<nInput, batchVars, selVars, chainVars, scratchVars, stampVars, cliVars, exportVars>>

\* clean_vtt of ytsub_my31 on a timed-text payload.
CleanVttMy31 ==
    /\ nFn = ""
    /\ nInput.kind = "vtt"
    /\ nFn' = "clean_vtt.my31"
    /\ nOutput' = clean_vtt_my31(RenderVtt(nInput.data))
    /\ UNCHANGED <<nInput, batchVars, selVars, chainVars, scratchVars, stampVars, cliVars, exportVars>>

NormNext ==
    \/ GetTranscript
    \/ FetchTranscriptApiSnippets
    \/ FetchTranscriptApiList
    \/ ParseJson3
    \/ CleanVttDedup
    \/ CleanVttCues
    \/ ParseJson3My25
    \/ CleanVttMy28
    \/ CleanVttMy25
    \/ CleanVttMy31

SpecNorm == NormInit /\ [][NormNext]_vars

(***************************************************************************)
(*                             Claims on the lines                         *)
(***************************************************************************)

\* The lines of l at the indices in K, in their order.
AtIndices(l, K) ==
    LET Rank(i) == Cardinality({j \in K : j <= i})
    IN  [r \in 1..Cardinality(K) |-> l[CHOOSE i \in K : Rank(i) = r]]

\* K is the set of kept indices: an index is kept exactly when no index before
\* it is kept or its text differs from the text of the last kept one before it.
KeptIndices(l, K) ==
    \A i \in 1..Len(l) :
        LET before == {k \in K : k < i}
            last   == CHOOSE k \in before : \A j \in before : j <= k
        IN  i \in K <=> (before = {} \/ l[i].text # l[last].text)

\* C7: the duplicate suppression of clean_vtt outputs exactly the cues whose
\* text differs (exact match) from the text of the immediately preceding kept
\* cue, each as it came in (timestamp, text) and in the order it came in; the
\* first cue is kept; texts [x, y, x] stay as they are.
C7_DedupKeepsChangesOnly ==
    nFn = "clean_vtt" =>
        LET l == nInput.data
        IN  /\ \E K \in SUBSET (1..Len(l)) :
                  /\ KeptIndices(l, K)
                  /\ nOutput = AtIndices(l, K)
            /\ l # <<>> => nOutput # <<>> /\ nOutput[1] = l[1]
            /\ (Len(l) = 3 /\ l[1].text = l[3].text /\ l[1].text # l[2].text)
                   => nOutput = l

\* C7's case: [(0, hi), (1, hi), (2, bye)] has become [(0, hi), (2, bye)].
C7_HiHiByeWitness ==
    /\ nFn = "clean_vtt"
    /\ nInput.data = << [ts |-> 0, text |-> <<"h", "i">>],
                        [ts |-> 1, text |-> <<"h", "i">>],
                        [ts |-> 2, text |-> <<"b", "y", "e">>] >>
    /\ nOutput = << [ts |-> 0, text |-> <<"h", "i">>],
                    [ts |-> 2, text |-> <<"b", "y", "e">>] >>

\* C8 (as claimed): no two consecutive lines of a returned transcript have
\* the same text, whichever formatter or parser built it.
C8_NoAdjacentEqualLines ==
    nFn # "" =>
        \A i \in 1..(Len(nOutput) - 1) : nOutput[i].text # nOutput[i + 1].text

\* C9 (as claimed): every line built by get_transcript and by the two branches
\* of fetch_transcript_api has a text that is non-empty once newlines are
\* replaced and the text is trimmed.
C9_ApiLinesHaveText ==
    nFn \in {"get_transcript", "fetch_transcript_api.snippets",
             "fetch_transcript_api.list"} =>
        \A i \in 1..Len(nOutput) : Strip(ReplaceNewline(nOutput[i].text)) # <<>>

\* A text holds a tag: a "<", then at least one token, then a ">".
HasTag(t) ==
    \E i, j \in 1..Len(t) :
        /\ t[i] = "<"
        /\ t[j] = ">"
        /\ j > i + 1
        /\ \A k \in (i + 1)..(j - 1) : t[k] # ">"

\* A text holds markup: a tag, an entity or a positioning attribute.
HasMarkup(t) ==
    \/ HasTag(t)
    \/ \E i \in 1..Len(t) : t[i] = "&nbsp;"
    \/ \E i \in 1..(Len(t) - 1) : t[i] = "line:" /\ t[i + 1] \notin Whitespace

\* A normalized sequence: every text is non-empty, trimmed, free of markup
\* and of newlines, and no two adjacent texts are equal.
Normalized(l) ==
    /\ \A i \in 1..Len(l) :
           /\ l[i].text # <<>>
           /\ l[i].text[1] \notin Whitespace
           /\ l[i].text[Len(l[i].text)] \notin Whitespace
           /\ ~HasMarkup(l[i].text)
           /\ \A k \in 1..Len(l[i].text) : l[i].text[k] # "\n"
    /\ \A i \in 1..(Len(l) - 1) : l[i].text # l[i + 1].text

\* The lines of a transcript as the entries a formatter takes.
AsEntries(lines) ==
    [i \in 1..Len(lines) |->
        [start |-> lines[i].ts[1] * 3600 + lines[i].ts[2] * 60 + lines[i].ts[3],
         text  |-> lines[i].text]]

\* C15: clean_vtt (on the cues of the blocks) and the snippets branch of
\* fetch_transcript_api leave an already-normalized sequence as it is, and
\* applied to their own output they return that output: normalizing twice
\* gives what normalizing once gives, for every cue sequence.
C15_NormalizeIdempotent ==
    /\ nFn = "clean_vtt.cues" =>
           /\ clean_vtt_cues(nOutput) = nOutput
           /\ Normalized(nInput.data) => nOutput = nInput.data
    /\ nFn = "fetch_transcript_api.snippets" =>
           /\ fetch_transcript_api_snippets(AsEntries(nOutput)) = nOutput
           /\ Normalized(nInput.data) => AsEntries(nOutput) = nInput.data

\* C15's case: a normalized sequence of two cues came out as it went in.
C15_NormalizedKeptWitness ==
    /\ nFn = "clean_vtt.cues"
    /\ Len(nInput.data) = 2
    /\ Normalized(nInput.data)
    /\ nOutput = nInput.data

\* H, M, S of a whole number of seconds.
HMS(t) == <<t \div 3600, (t % 3600) \div 60, t % 60>>

\* The line an event stands for: floor(tStartMs / 1000) seconds, the trimmed
\* concatenation of the segments' utf8 fields.
EventLine(event) ==
    Line(HMS(event.tStartMs \div 1000), Strip(Concat(event.segs)))

\* The events that have a segment list whose text is non-empty once trimmed.
SpokenEvents(events) ==
    {i \in 1..Len(events) :
        events[i].hasSegs /\ Strip(Concat(events[i].segs)) # <<>>}

\* C16: parse_json3 (ytsub_my22, ytsub_my25) returns exactly one line per
\* event that has a segment list with a non-empty trimmed text, in the order
\* of the events, with the timestamp of floor(tStartMs / 1000) seconds and the
\* trimmed concatenation of the utf8 fields; an event without a segment list
\* gives no line.
C16_OneLinePerSpokenEvent ==
    nFn \in {"parse_json3", "parse_json3.my25"} =>
        nOutput = AtIndices([i \in 1..Len(nInput.data) |-> EventLine(nInput.data[i])],
                            SpokenEvents(nInput.data))

\* C16's case: of an event without segs, an event of whitespace and an event
\* of two segments at 61.5 s, the last alone has its line, at 00:01:01.
C16_SkippedEventsWitness ==
    /\ nFn \in {"parse_json3", "parse_json3.my25"}
    /\ Len(nInput.data) = 3
    /\ ~nInput.data[1].hasSegs
    /\ nInput.data[2].segs = <<NL>>
    /\ nInput.data[3] = [tStartMs |-> 61500, hasSegs |-> TRUE, segs |-> <<SP, A, NL>>]
    /\ nOutput = <<Line(<<0, 1, 1>>, A)>>

\* A block has a recognizable HH:MM:SS time prefix.
HasTimePrefix(block) ==
    /\ block # <<>>
    /\ Len(block[1]) >= 2
    /\ block[1][1] = "00:"
    /\ block[1][2] \in Stamps

\* The cue text of a block: the payload lines under the timing with every
\* tag removed, the non-empty ones trimmed and joined with a single space.
CueTextOf(block) == JoinLines(StripTags(JoinNewline(Tail(block))))

\* C17 (as claimed): every cue text that clean_vtt (ytsub_my28, ytsub_my25)
\* emits is free of tags and is the text of a block of the payload that has an
\* HH:MM:SS time prefix: the block's lines with the tags removed and the text
\* around them kept, the non-empty lines joined with a single space.
C17_CueTextIsTagFreeBlockText ==
    nFn \in {"clean_vtt.my28", "clean_vtt.my25"} =>
        \A i \in 1..Len(nOutput) :
            /\ ~HasTag(nOutput[i].text)
            /\ \E k \in 1..Len(nInput.data) :
                   /\ HasTimePrefix(nInput.data[k])
                   /\ nOutput[i].ts = StampOf(nInput.data[k][1][2])
                   /\ nOutput[i].text = CueTextOf(nInput.data[k])

\* The text clean_vtt builds from lines: the tags and entities (and, in
\* ytsub_my28, the positioning attributes) removed, the non-empty lines
\* trimmed and joined.
TextOfLines(fn, lines) ==
    IF fn = "clean_vtt.my28" THEN CleanText(JoinNewline(lines))
    ELSE JoinLines(ReplaceNbsp(StripTags(JoinNewline(lines))))

HasArrow(t) == \E k \in 1..Len(t) : t[k] = "-->"

\* C26 (as claimed): in clean_vtt of my28 and of my31 the cue text of a block
\* with a time prefix is built from exactly the block's lines other than the
\* time-range line: the time-range line never appears in a cue text, a block
\* that is only a time-range line (with or without positioning attributes)
\* yields no cue, and no caption-text line is removed as a time-range line.
C26_TimeLineOnlyRemoved ==
    nFn \in {"clean_vtt.my28", "clean_vtt.my31"} =>
        /\ \A i \in 1..Len(nOutput) : ~HasArrow(nOutput[i].text)
        /\ (\A k \in 1..Len(nInput.data) :
                HasTimePrefix(nInput.data[k]) /\ Len(nInput.data[k]) = 1)
               => nOutput = <<>>
        /\ (Len(nInput.data) = 1 /\ HasTimePrefix(nInput.data[1])) =>
               LET block == nInput.data[1]
                   text  == TextOfLines(nFn, Tail(block))
               IN  nOutput = IF text = <<>> THEN <<>>
                             ELSE <<Line(StampOf(block[1][2]), text)>>

\* The seconds a timestamp <<H, M, S>> stands for.
SecondsOf(ts) == ts[1] * 3600 + ts[2] * 60 + ts[3]

\* The cues of the payload are in ascending order of start time: the events
\* by tStartMs, the blocks that have a time prefix by their start.
PayloadAscending ==
    IF nInput.kind = "events"
    THEN \A a, b \in 1..Len(nInput.data) :
             a < b => nInput.data[a].tStartMs <= nInput.data[b].tStartMs
    ELSE \A a, b \in 1..Len(nInput.data) :
             (a < b /\ HasTimePrefix(nInput.data[a]) /\ HasTimePrefix(nInput.data[b]))
                 => SecondsOf(StampOf(nInput.data[a][1][2]))
                        <= SecondsOf(StampOf(nInput.data[b][1][2]))

MaxTracks == 2

Langs == {"zh-TW", "zh-Hant", "zh-HK", "zh-Hans", "en", "ja", "fr"}
Tracks == [lang : Langs, generated : BOOLEAN, translatable : BOOLEAN]

\* A listing holds one track for a language code and origin.
TrackLists ==
    {l \in SeqsUpTo(Tracks, MaxTracks) :
        \A i, j \in 1..Len(l) :
            (l[i].lang = l[j].lang /\ l[i].generated = l[j].generated) => i = j}

NotFound == [found |-> FALSE]
Selected(t, target) == [found |-> TRUE, track |-> t, translate |-> target]

TrackOf(l, code, generated) ==
    CHOOSE t \in {l[i] : i \in 1..Len(l)} : t.lang = code /\ t.generated = generated

HasTrack(l, code, generated) ==
    \E i \in 1..Len(l) : l[i].lang = code /\ l[i].generated = generated

\* (mutant of find_transcript: the first listed track whose code is among the
\* codes, instead of the track of the first code)
find_transcript_ListOrder(l, codes) ==
    LET hits == {i \in 1..Len(l) : \E k \in 1..Len(codes) : l[i].lang = codes[k]}
    IN  IF hits = {} THEN NotFound
        ELSE Selected(l[CHOOSE i \in hits : \A j \in hits : i <= j], "")

\* ts_list.find_transcript(codes); NotFound stands for NoTranscriptFound.
RECURSIVE find_transcript(_, _)
find_transcript(l, codes) ==
    IF codes = <<>> THEN NotFound
    ELSE IF HasTrack(l, Head(codes), FALSE)
         THEN Selected(TrackOf(l, Head(codes), FALSE), "")
    ELSE IF HasTrack(l, Head(codes), TRUE)
         THEN Selected(TrackOf(l, Head(codes), TRUE), "")
    ELSE find_transcript(l, Tail(codes))

\* iter(ts_list): the authored tracks, then the generated ones.
IterTracks(l) ==
    SelectSeq(l, LAMBDA t : ~t.generated) \o SelectSeq(l, LAMBDA t : t.generated)

\* if transcript.is_translatable: transcript = transcript.translate(target)
TranslateIfPossible(sel, target) ==
    IF sel.track.translatable THEN Selected(sel.track, target) ELSE sel

\* next(iter(ts_list)), translated when it can be; NotFound on an empty list.
FirstTrack(l, target) ==
    IF IterTracks(l) = <<>> THEN NotFound
    ELSE TranslateIfPossible(Selected(IterTracks(l)[1], ""), target)

\* fetch_transcript of ytsub_my04, lines 68-78: the Traditional Chinese codes;
\* else the first track of the listing, translated to zh-Hant when it is
\* translatable and taken as it is when it is not; None when there is no
\* track (StopIteration, line 86).
SelectMy04(l) ==
    LET first == find_transcript(l, <<"zh-TW", "zh-Hant", "zh-HK">>)
    IN  IF first.found THEN first ELSE FirstTrack(l, "zh-Hant")

\* fetch_transcript of ytsub_my05, lines 67-87: the Traditional Chinese codes;
\* else zh-Hans, en, ja, translated to zh-Hant when translatable; else the
\* first track, translated when translatable; None when there is no track.
SelectMy05(l) ==
    LET first  == find_transcript(l, <<"zh-TW", "zh-Hant", "zh-HK">>)
        second == find_transcript(l, <<"zh-Hans", "en", "ja">>)
    IN  IF first.found THEN first
        ELSE IF second.found THEN TranslateIfPossible(second, "zh-Hant")
        ELSE FirstTrack(l, "zh-Hant")

\* fetch_transcript of ytsub_my06, lines 73-89: the Traditional Chinese codes;
\* else en, zh-Hans, translated to zh-TW when translatable; else the first
\* track, translated when translatable; None when there is no track.
SelectMy06(l) ==
    LET first  == find_transcript(l, <<"zh-TW", "zh-Hant", "zh-HK">>)
        second == find_transcript(l, <<"en", "zh-Hans">>)
    IN  IF first.found THEN first
        ELSE IF second.found THEN TranslateIfPossible(second, "zh-TW")
        ELSE FirstTrack(l, "zh-TW")

\* fetch_transcript of ytsub_my02, lines 64-75: the track of the first listed
\* code among the five; else the first track of the listing, translated to
\* zh-Hant when it is translatable and None (line 75) when it is not.  On an
\* empty listing next() raises StopIteration, which line 89 turns into None.
SelectMy02(l) ==
    LET first == find_transcript(l, <<"zh-TW", "zh-Hant", "zh-HK", "zh-Hans", "en">>)
    IN  IF first.found THEN first
        ELSE IF IterTracks(l) = <<>> THEN NotFound
        ELSE IF IterTracks(l)[1].translatable
             THEN Selected(IterTracks(l)[1], "zh-Hant")
        ELSE NotFound

\* ---- the selection from the metadata of the external tool.  info['subtitles']
\* holds the authored tracks by language code and info['automatic_captions']
\* the generated ones; a dict iterates its keys in insertion order.
SubtitleKeys(l) == [i \in 1..Len(SelectSeq(l, LAMBDA t : ~t.generated)) |->
                        SelectSeq(l, LAMBDA t : ~t.generated)[i].lang]
AutomaticKeys(l) == [i \in 1..Len(SelectSeq(l, LAMBDA t : t.generated)) |->
                        SelectSeq(l, LAMBDA t : t.generated)[i].lang]
KeySet(keys) == {keys[i] : i \in 1..Len(keys)}

\* for key in codes: if key in keys: ...; break  ("" when no code is a key)
RECURSIVE FirstKeyIn(_, _)
FirstKeyIn(codes, keys) ==
    IF codes = <<>> THEN ""
    ELSE IF Head(codes) \in keys THEN Head(codes)
    ELSE FirstKeyIn(Tail(codes), keys)

\* The track behind d1.get(key) in the merge {**subtitles, **automatic_captions}
\* (ytsub_my22 74) and behind auto_caps.get(key) or manual_subs.get(key)
\* (ytsub_my24 88): the generated track when there is one, else the authored.
AutomaticFirst(l, key) ==
    IF HasTrack(l, key, TRUE) THEN TrackOf(l, key, TRUE) ELSE TrackOf(l, key, FALSE)

\* fetch_transcript of ytsub_my22, lines 74-101: the first of the five codes
\* that is a key of the merged dict, else the dict's first key; None for an
\* empty dict; &tlang=zh-Hant is added to the URL of the track.
SelectMy22(l) ==
    LET all_subs == SubtitleKeys(l) \o
                    SelectSeq(AutomaticKeys(l), LAMBDA k : k \notin KeySet(SubtitleKeys(l)))
        hit == FirstKeyIn(<<"zh-Hant", "zh-TW", "en", "en-orig", "en-US">>, KeySet(all_subs))
        target_key == IF hit # "" THEN hit ELSE all_subs[1]
    IN  IF all_subs = <<>> THEN NotFound
        ELSE Selected(AutomaticFirst(l, target_key), "zh-Hant")

\* fetch_transcript of ytsub_my24, lines 74-104: the first of the four codes
\* that is a key of either dict, else the first key of automatic_captions,
\* else the first key of subtitles; None when there is no key.
SelectMy24(l) ==
    LET auto_caps == AutomaticKeys(l)
        manual_subs == SubtitleKeys(l)
        hit == FirstKeyIn(<<"en", "en-orig", "zh-TW", "zh-Hant">>,
                          KeySet(auto_caps) \cup KeySet(manual_subs))
        src_lang == IF hit # "" THEN hit
                    ELSE IF auto_caps # <<>> THEN auto_caps[1]
                    ELSE IF manual_subs # <<>> THEN manual_subs[1]
                    ELSE ""
    IN  IF src_lang = "" THEN NotFound
        ELSE Selected(AutomaticFirst(l, src_lang), "zh-Hant")

\* The fallback of fetch_transcript of ytsub_my07, lines 88-90:
\* YouTubeTranscriptApi.get_transcript(video_id, languages=[...]) lists the
\* tracks, takes find_transcript(languages) and fetches it.
DirectLanguagesMy07 == <<"en", "zh-TW", "zh-CN">>
GetTranscriptMy07(l) == find_transcript(l, DirectLanguagesMy07)

SelectInit ==
    /\ sTracks \in TrackLists
    /\ sFn = ""
    /\ sSel = NotFound
    /\ BatchIdle
    /\ NormIdle
    /\ ChainIdle
    /\ ScratchIdle
    /\ StampIdle
    /\ CliIdle
    /\ ExportIdle

\* The selection of fetch_transcript (ytsub_my05) on the listed tracks.
FetchTranscriptMy05 ==
    /\ sFn = ""
    /\ sFn' = "my05"
    /\ sSel' = SelectMy05(sTracks)
    /\ UNCHANGED <<sTracks, batchVars, normVars, chainVars, scratchVars, stampVars, cliVars, exportVars>>

\* The selection of fetch_transcript (ytsub_my06) on the listed tracks.
FetchTranscriptMy06 ==
    /\ sFn = ""
    /\ sFn' = "my06"
    /\ sSel' = SelectMy06(sTracks)
    /\ UNCHANGED <<sTracks, batchVars, normVars, chainVars, scratchVars, stampVars, cliVars, exportVars>>

\* The selection of fetch_transcript (ytsub_my02) on the listed tracks.
FetchTranscriptMy02 ==
    /\ sFn = ""
    /\ sFn' = "my02"
    /\ sSel' = SelectMy02(sTracks)
    /\ UNCHANGED <<sTracks, batchVars, normVars, chainVars, scratchVars, stampVars, cliVars, exportVars>>

\* The selection of fetch_transcript (ytsub_my04) on the listed tracks.
FetchTranscriptMy04 ==
    /\ sFn = ""
    /\ sFn' = "my04"
    /\ sSel' = SelectMy04(sTracks)
    /\ UNCHANGED <<sTracks, batchVars, normVars, chainVars, scratchVars, stampVars, cliVars, exportVars>>

\* The selection of fetch_transcript (ytsub_my22) from the tool's metadata.
FetchTranscriptMy22 ==
    /\ sFn = ""
    /\ sFn' = "my22"
    /\ sSel' = SelectMy22(sTracks)
    /\ UNCHANGED <<sTracks, batchVars, normVars, chainVars, scratchVars, stampVars, cliVars, exportVars>>

\* The selection of fetch_transcript (ytsub_my24) from the tool's metadata.
FetchTranscriptMy24 ==
    /\ sFn = ""
    /\ sFn' = "my24"
    /\ sSel' = SelectMy24(sTracks)
    /\ UNCHANGED <<sTracks, batchVars, normVars, chainVars, scratchVars, stampVars, cliVars, exportVars>>

\* The track that the direct request of ytsub_my07 returns the captions of.
DirectRequestMy07 ==
    /\ sFn = ""
    /\ sFn' = "my07.direct"
    /\ sSel' = GetTranscriptMy07(sTracks)
    /\ UNCHANGED <<sTracks, batchVars, normVars, chainVars, scratchVars, stampVars, cliVars, exportVars>>

SelectNext ==
    \/ DirectRequestMy07
    \/ FetchTranscriptMy02
    \/ FetchTranscriptMy04
    \/ FetchTranscriptMy05
    \/ FetchTranscriptMy06
    \/ FetchTranscriptMy22
    \/ FetchTranscriptMy24

SpecSelect == SelectInit /\ [][SelectNext]_vars

(***************************************************************************)
(*                       Claims on the track selection                     *)
(***************************************************************************)
PreferenceMy05 == <<"zh-TW", "zh-Hant", "zh-HK", "zh-Hans", "en", "ja">>

ListedLangs == {sTracks[i].lang : i \in 1..Len(sTracks)}

\* The positions in the preference list of the codes that some track has.
MatchedMy05 == {k \in 1..Len(PreferenceMy05) : PreferenceMy05[k] \in ListedLangs}
EarliestMy05 == CHOOSE k \in MatchedMy05 : \A j \in MatchedMy05 : k <= j

\* The selected track is the track of the earliest preferred code that is
\* listed, the authored one when both origins are listed.
SelectsEarliestMy05 ==
    /\ sSel.found
    /\ sSel.track \in {sTracks[i] : i \in 1..Len(sTracks)}
    /\ sSel.track.lang = PreferenceMy05[EarliestMy05]
    /\ HasTrack(sTracks, sSel.track.lang, FALSE) => ~sSel.track.generated

\* C10 (as claimed): when a track's code is in the preference list of my05,
\* the track of the earliest such code is selected and fetched untranslated.
C10_PreferredTrackUnmodified ==
    (sFn = "my05" /\ MatchedMy05 # {}) =>
        /\ SelectsEarliestMy05
        /\ sSel.translate = ""

\* C10 (amended): the track of the earliest listed preferred code is selected;
\* it is fetched untranslated when that code is zh-TW, zh-Hant or zh-HK, and
\* when the code is zh-Hans, en or ja it is fetched translated to zh-Hant
\* exactly when the track is translatable.
C10_PreferredTrackByTier ==
    (sFn = "my05" /\ MatchedMy05 # {}) =>
        /\ SelectsEarliestMy05
        /\ EarliestMy05 <= 3 => sSel.translate = ""
        /\ EarliestMy05 > 3 =>
               sSel.translate = (IF sSel.track.translatable THEN "zh-Hant" ELSE "")

\* C10's case: an en track is listed before a zh-HK track, and the zh-HK
\* track is the selection, untranslated.
C10_LaterListedWinsWitness ==
    /\ sFn = "my05"
    /\ Len(sTracks) = 2
    /\ sTracks[1].lang = "en"
    /\ sTracks[2].lang = "zh-HK"
    /\ sSel = Selected(sTracks[2], "")

\* No track has a Traditional Chinese code, and some en track is translatable.
NoTraditionalButTranslatableEn ==
    /\ ListedLangs \cap {"zh-TW", "zh-Hant", "zh-HK"} = {}
    /\ \E i \in 1..Len(sTracks) : sTracks[i].lang = "en" /\ sTracks[i].translatable

\* C11 (as claimed): when no Traditional Chinese track is listed and a
\* translatable en track is, the selection of my05 and of my06 is an en track
\* marked for translation to zh-Hant.
C11_EnglishTranslatedToZhHant ==
    (sFn \in {"my05", "my06"} /\ NoTraditionalButTranslatableEn) =>
        /\ sSel.found
        /\ sSel.track.lang = "en"
        /\ sSel.translate = "zh-Hant"

PreferenceMy02 == <<"zh-TW", "zh-Hant", "zh-HK", "zh-Hans", "en">>

\* The language codes in lexical order (the order of Python's str).
LexOrder == <<"en", "fr", "ja", "zh-HK", "zh-Hans", "zh-Hant", "zh-TW">>
LexRank(code) == CHOOSE k \in 1..Len(LexOrder) : LexOrder[k] = code

ListedTracks == {sTracks[i] : i \in 1..Len(sTracks)}
Translatables == {t \in ListedTracks : t.translatable}

\* No listed track has a code of the preference list.
NoPreferredMy02 ==
    \A k \in 1..Len(PreferenceMy02) : PreferenceMy02[k] \notin ListedLangs

\* C21 (as claimed): when no listed track has a preferred code and some
\* listed track is translatable, the selection of my02 is a translatable
\* track marked for translation to the most-preferred code: an authored one
\* if there is one, otherwise the one with the lowest code in lexical order.
C21_TranslatableFallback ==
    (sFn = "my02" /\ NoPreferredMy02 /\ Translatables # {}) =>
        /\ sSel.found
        /\ sSel.track \in Translatables
        /\ sSel.translate = PreferenceMy02[1]
        /\ (\E t \in Translatables : ~t.generated) => ~sSel.track.generated
        /\ (\A t \in Translatables : t.generated) =>
               \A t \in Translatables : LexRank(sSel.track.lang) <= LexRank(t.lang)

PreferenceMy04 == <<"zh-TW", "zh-Hant", "zh-HK">>

\* No listed track has a code of the variant's preference list.
NoPreferredTrack ==
    LET codes == IF sFn = "my04" THEN PreferenceMy04 ELSE PreferenceMy05
    IN  \A k \in 1..Len(codes) : codes[k] \notin ListedLangs

\* C22 (as claimed): when no listed track has a preferred code and no listed
\* track is translatable, the selection of my04 and of my05 yields no track:
\* there is nothing to fetch a payload from.
C22_NoUsableTrackSelectsNone ==
    (sFn \in {"my04", "my05"} /\ NoPreferredTrack /\ Translatables = {}) =>
        ~sSel.found

\* C23 (as claimed): in my22 and my24, when the selected language code has
\* both an authored and a generated track, the track whose payload is fetched
\* is the authored one.
C23_AuthoredOverGenerated ==
    (/\ sFn \in {"my22", "my24"}
     /\ sSel.found
     /\ HasTrack(sTracks, sSel.track.lang, FALSE)
     /\ HasTrack(sTracks, sSel.track.lang, TRUE)) =>
        ~sSel.track.generated

\* C29 (as claimed): the direct request of my07 asks for a fixed list of
\* codes with the preferred language (Traditional Chinese) before English:
\* when captions exist in both, the Traditional Chinese ones are returned;
\* it fails only if no code of the list has captions.
C29_DirectPrefersTraditional ==
    sFn = "my07.direct" =>
        /\ ("zh-TW" \in ListedLangs /\ "en" \in ListedLangs) =>
               (sSel.found /\ sSel.track.lang = "zh-TW")
        /\ ~sSel.found =>
               \A k \in 1..Len(DirectLanguagesMy07) :
                   DirectLanguagesMy07[k] \notin ListedLangs

(***************************************************************************)
(*             The acquisition chain: fetch_transcript                     *)
(*                                                                         *)
(* ytsub_my07 and ytsub_my08: the listing strategy (list_transcripts, the   *)
(* selection, fetch), then the direct request (get_transcript).             *)
(* ytsub_my23: the tool's metadata (extract_info), then an HTTP GET of the  *)
(* track's URL.  cEnv holds the answer the upstream service gives to each   *)
(* request, should the request be made.                                    *)
(***************************************************************************)
ChainVariants == {"my07", "my08", "my23"}

None == [kind |-> "None"]
Text(lines) == [kind |-> "text", lines |-> lines]
\* str(data)[:1000] + "... (...)": the start of the payload's repr.
RawCut == [kind |-> "raw"]

\* if not transcript: in process_video; None and "" are no transcript.
IsTranscript(ret) == ret.kind = "raw" \/ (ret.kind = "text" /\ ret.lines # <<>>)

\* ts_list.find_generated_transcript(codes): the generated tracks only.
RECURSIVE find_generated_transcript(_, _)
find_generated_transcript(l, codes) ==
    IF codes = <<>> THEN NotFound
    ELSE IF HasTrack(l, Head(codes), TRUE)
         THEN Selected(TrackOf(l, Head(codes), TRUE), "")
    ELSE find_generated_transcript(l, Tail(codes))

\* ytsub_my07 67-79.  An empty listing ends in StopIteration (NotFound here),
\* which the except Exception of line 83 takes.
SelectMy07(l) ==
    LET first  == find_transcript(l, <<"zh-TW", "zh-Hant", "zh-HK">>)
        second == find_transcript(l, <<"en", "zh-Hans">>)
    IN  IF first.found THEN first
        ELSE IF second.found THEN TranslateIfPossible(second, "zh-TW")
        ELSE FirstTrack(l, "zh-TW")

\* ytsub_my08 69-88.  The StopIteration of an empty listing is passed over
\* (87-88) and transcript stays None.
SelectMy08(l) ==
    LET first  == find_transcript(l, <<"zh-TW", "zh-Hant", "zh-HK">>)
        second == find_generated_transcript(l, <<"en", "en-US", "zh-Hans">>)
    IN  IF first.found THEN first
        ELSE IF second.found THEN TranslateIfPossible(second, "zh-TW")
        ELSE FirstTrack(l, "zh-TW")

SelectOf(v, l) == IF v = "my07" THEN SelectMy07(l) ELSE SelectMy08(l)

\* The lines of the listing strategy (my07 96-102, my08 95-99): two divmods
\* by 60, newlines replaced.
ListedLines(data) ==
    [i \in 1..Len(data) |->
        Line(format_timestamp(data[i].start), ReplaceNewline(data[i].text))]

\* The lines of the direct request: my07 formats them as the listed ones
\* (96-102); my08 106 formats inline and keeps the text as it is.
DirectLines(v, data) ==
    IF v = "my07" THEN ListedLines(data)
    ELSE [i \in 1..Len(data) |-> Line(TimestampInline(data[i].start), data[i].text)]

\* Where fetch_transcript goes when the listing strategy fails: my07 83-89
\* takes every exception of the first stage to the direct request; my08 takes
\* the exceptions there (102-105) but returns None when no track was selected
\* (90-91).
AfterListing(v, failure) ==
    IF v = "my08" /\ failure = "notrack" THEN "return_none" ELSE "direct"

\* The return value for a fetched payload: my07 93-104 returns None for an
\* empty payload; my08 95-100 joins whatever lines there are.
ReturnListed(v, data) ==
    IF v = "my07" /\ data = <<>> THEN None ELSE Text(ListedLines(data))

ReturnDirect(v, data) ==
    IF v = "my07" /\ data = <<>> THEN None ELSE Text(DirectLines(v, data))

\* ---- the answers of the upstream service
E1 == [start |-> 0, text |-> A]
E2 == [start |-> 3725, text |-> <<"a", "\n", "b">>]
ListedPayloads == {<<>>, <<E1>>, <<E1, E2>>}
DirectPayloads == {<<>>, <<E2>>, <<E2, E1>>}
ChainTrackLists == {l \in TrackLists : Len(l) <= 1}

Ev1 == [tStartMs |-> 61500, hasSegs |-> TRUE, segs |-> <<A, B>>]
Ev2 == [tStartMs |-> 0, hasSegs |-> FALSE, segs |-> <<>>]
ChainEvents == {<<>>, <<Ev2>>, <<Ev1>>, <<Ev2, Ev1, Ev1>>}

\* The answer to list_transcripts, transcript.fetch and get_transcript.
ApiEnv ==
    [kind : {"api"},
     listing : [ok : {TRUE}, tracks : ChainTrackLists] \cup {[ok |-> FALSE, tracks |-> <<>>]},
     fetch : [ok : {TRUE}, data : ListedPayloads] \cup {[ok |-> FALSE, data |-> <<>>]},
     direct : [ok : {TRUE}, data : DirectPayloads] \cup {[ok |-> FALSE, data |-> <<>>]}]

\* The answer to extract_info (the keys of requested_subtitles and of
\* automatic_captions) and to the GET of the subtitle URL.
ToolEnv ==
    [kind : {"tool"},
     infoOk : BOOLEAN,
     requested : SUBSET {"zh-Hant", "en"},
     autoKeys : SUBSET {"en-orig", "ja"},
     http : {"error", "status", "notjson", "json_other"},
     events : {<<>>}]
    \cup
    [kind : {"tool"},
     infoOk : {TRUE},
     requested : SUBSET {"zh-Hant", "en"},
     autoKeys : SUBSET {"en-orig", "ja"},
     http : {"json3"},
     events : ChainEvents]

ChainInit ==
    /\ cVariant \in ChainVariants
    /\ cEnv \in (IF cVariant = "my23" THEN ToolEnv ELSE ApiEnv)
    /\ cpc = "start"
    /\ cSel = NotFound
    /\ cCalls = <<>>
    /\ cRet = [kind |-> ""]
    /\ BatchIdle
    /\ NormIdle
    /\ SelIdle
    /\ ScratchIdle
    /\ StampIdle
    /\ CliIdle
    /\ ExportIdle

Return(ret) ==
    /\ cpc' = "done"
    /\ cRet' = ret

Continue(next) ==
    /\ cpc' = next
    /\ UNCHANGED cRet

\* The listing strategy has failed (rejected, notrack, fetchfail).
ListingFailed(failure) ==
    IF AfterListing(cVariant, failure) = "direct"
    THEN Continue("direct")
    ELSE Return(None)

\* await asyncio.to_thread(YouTubeTranscriptApi.list_transcripts, video_id)
\* and the selection that follows it without an await.
ListTranscripts ==
    /\ cpc = "start"
    /\ cVariant \in {"my07", "my08"}
    /\ cCalls' = Append(cCalls, "list_transcripts")
    /\ \/ /\ ~cEnv.listing.ok
          /\ ListingFailed("rejected")
          /\ UNCHANGED cSel
       \/ /\ cEnv.listing.ok
          /\ ~SelectOf(cVariant, cEnv.listing.tracks).found
          /\ ListingFailed("notrack")
          /\ UNCHANGED cSel
       \/ /\ cEnv.listing.ok
          /\ SelectOf(cVariant, cEnv.listing.tracks).found
          /\ cSel' = SelectOf(cVariant, cEnv.listing.tracks)
          /\ Continue("fetch")
    /\ UNCHANGED <<cVariant, cEnv, batchVars, normVars, selVars, scratchVars, stampVars, cliVars, exportVars>>

\* data = await asyncio.to_thread(transcript.fetch), then the formatting.
FetchPayload ==
    /\ cpc = "fetch"
    /\ cCalls' = Append(cCalls, "fetch")
    /\ \/ /\ ~cEnv.fetch.ok
          /\ ListingFailed("fetchfail")
       \/ /\ cEnv.fetch.ok
          /\ Return(ReturnListed(cVariant, cEnv.fetch.data))
    /\ UNCHANGED <<cVariant, cEnv, cSel, batchVars, normVars, selVars, scratchVars, stampVars, cliVars, exportVars>>

\* await asyncio.to_thread(YouTubeTranscriptApi.get_transcript, video_id,
\* languages=[...]), then the formatting.
DirectRequest ==
    /\ cpc = "direct"
    /\ cCalls' = Append(cCalls, "get_transcript")
    /\ \/ /\ ~cEnv.direct.ok
          /\ Return(None)
       \/ /\ cEnv.direct.ok
          /\ Return(ReturnDirect(cVariant, cEnv.direct.data))
    /\ UNCHANGED <<cVariant, cEnv, cSel, batchVars, normVars, selVars, scratchVars, stampVars, cliVars, exportVars>>

\* ytsub_my23 71-92: the URL of the first of zh-Hant, en in
\* requested_subtitles; else of the first automatic_captions key holding 'en'.
SubUrl(env) ==
    IF "zh-Hant" \in env.requested THEN [found |-> TRUE, key |-> "zh-Hant"]
    ELSE IF "en" \in env.requested THEN [found |-> TRUE, key |-> "en"]
    ELSE IF "en-orig" \in env.autoKeys THEN [found |-> TRUE, key |-> "en-orig"]
    ELSE NotFound

\* info = await loop.run_in_executor(None, ... extract_info ...)
ExtractInfo ==
    /\ cpc = "start"
    /\ cVariant = "my23"
    /\ cCalls' = Append(cCalls, "extract_info")
    /\ \/ /\ ~cEnv.infoOk
          /\ Return(None)
          /\ UNCHANGED cSel
       \/ /\ cEnv.infoOk
          /\ ~SubUrl(cEnv).found
          /\ Return(None)
          /\ UNCHANGED cSel
       \/ /\ cEnv.infoOk
          /\ SubUrl(cEnv).found
          /\ cSel' = SubUrl(cEnv)
          /\ Continue("http")
    /\ UNCHANGED <<cVariant, cEnv, batchVars, normVars, selVars, scratchVars, stampVars, cliVars, exportVars>>

\* What ytsub_my23 97-109 returns for the response: None when the GET raises,
\* the status is not 200 or resp.json() raises; the parsed lines when the JSON
\* has 'events'; else the start of the payload's repr.
ResponseMy23(env) ==
    IF env.http \in {"error", "status", "notjson"} THEN None
    ELSE IF env.http = "json3" THEN Text(parse_json3(env.events))
    ELSE RawCut

\* resp = await self.http_client.get(sub_url) and what follows it.
HttpGet ==
    /\ cpc = "http"
    /\ cCalls' = Append(cCalls, "http_get")
    /\ Return(ResponseMy23(cEnv))
    /\ UNCHANGED <<cVariant, cEnv, cSel, batchVars, normVars, selVars, scratchVars, stampVars, cliVars, exportVars>>

ChainNext ==
    \/ ListTranscripts
    \/ FetchPayload
    \/ DirectRequest
    \/ ExtractInfo
    \/ HttpGet

SpecChain == ChainInit /\ [][ChainNext]_vars

(***************************************************************************)
(*                     Claims on the acquisition chain                     *)
(***************************************************************************)

\* What each strategy of the chain yields under cEnv: the cues of the listing
\* strategy (none when the listing is rejected, no track is selected or the
\* fetch fails) and of the direct request.
ListingCues ==
    IF cEnv.listing.ok /\ SelectOf(cVariant, cEnv.listing.tracks).found /\ cEnv.fetch.ok
    THEN cEnv.fetch.data ELSE <<>>
DirectCues == IF cEnv.direct.ok THEN cEnv.direct.data ELSE <<>>

Tried(request) == \E k \in 1..Len(cCalls) : cCalls[k] = request

\* C3 (as claimed): fetch_transcript of my07 returns the transcript of the
\* first strategy, in order, that yields a non-empty cue sequence, and returns
\* None only when both strategies were tried and neither yielded one.
C3_FirstYieldingStrategyWins ==
    (cVariant = "my07" /\ cpc = "done") =>
        /\ ListingCues # <<>> => cRet = Text(ListedLines(ListingCues))
        /\ (ListingCues = <<>> /\ DirectCues # <<>>)
               => cRet = Text(DirectLines("my07", DirectCues))
        /\ cRet = None =>
               /\ Tried("list_transcripts")
               /\ Tried("get_transcript")
               /\ ListingCues = <<>>
               /\ DirectCues = <<>>

\* The listing strategy raises or fails: the listing is rejected, no track
\* survives the selection, or the fetch of the payload fails.
ListingStrategyFails ==
    \/ ~cEnv.listing.ok
    \/ ~SelectOf(cVariant, cEnv.listing.tracks).found
    \/ ~cEnv.fetch.ok

\* C4 (as claimed): when strategy 1 raises or fails and strategy 2 returns a
\* valid payload, the result is the transcript built from strategy 2's cues
\* alone, and the direct request is the last request made.
C4_DirectAfterFailedListing ==
    (/\ cVariant \in {"my07", "my08"}
     /\ cpc = "done"
     /\ ListingStrategyFails
     /\ DirectCues # <<>>) =>
        /\ cRet = Text(DirectLines(cVariant, DirectCues))
        /\ cCalls[Len(cCalls)] = "get_transcript"

\* C19 (as claimed): in fetch_transcript of my08, each of the three failures
\* of the listing strategy (the listing is rejected, no track survives the
\* selection, the fetch of the payload fails) makes the chain go on to the
\* direct single-language request instead of ending with a failure.
C19_ListingFailureMovesOn ==
    (cVariant = "my08" /\ cpc = "done" /\ ListingStrategyFails)
        => Tried("get_transcript")

\* C5 (as claimed): a payload that is not event-stream JSON with an events
\* list makes the acquisition of my23 fail; nothing is returned as transcript.
C5_UnparsedPayloadFails ==
    (cVariant = "my23" /\ cpc = "done" /\ Tried("http_get")
        /\ cEnv.http \in {"notjson", "json_other"}) =>
        ~IsTranscript(cRet)

(***************************************************************************)
(*        The external-tool strategy and its scratch directory             *)
(*                                                                         *)
(* fetch_transcript_cli (ytsub_my28 63-109, old_bak/ytsub_my26 66-120) and  *)
(* fetch_transcript_lib (ytsub_my31 57-113) have one shape: remove and make *)
(* .tmp_<video_id> (before the try block), await the tool, list the         *)
(* directory, await the read of the subtitle file, and remove the           *)
(* directory in the finally block.  The pipelines of a run are the tasks    *)
(* that gather started; the playlist is taken as it is listed, so two       *)
(* pipelines may have the same identifier.                                  *)
(***************************************************************************)
NumPipes == 2

Pipes == 1..NumPipes
VideoIds == {"x", "y"}

\* The pipelines inside the call, from the first line to the return.
InCall == {"tool", "tooldone", "toolraised", "read"}
Exited == {"returned", "raised"}
Running == {p \in Pipes : tpc[p] \in InCall}

\* Another pipeline of the same identifier, hence of the same directory, is
\* inside its call.
OthersOnDir(p) == {q \in Running : q # p /\ tIds[q] = tIds[p]}

ScratchInit ==
    /\ tLimit \in 1..NumPipes
    /\ tIds \in [Pipes -> VideoIds]
    /\ tDir \in [VideoIds -> {"absent", "stale"}]
    /\ tpc = [p \in Pipes |-> "wait"]
    /\ tFresh = [p \in Pipes |-> FALSE]
    /\ tRet = [p \in Pipes |-> ""]
    /\ tDirAtExit = [p \in Pipes |-> FALSE]
    /\ BatchIdle
    /\ NormIdle
    /\ SelIdle
    /\ ChainIdle
    /\ StampIdle
    /\ CliIdle
    /\ ExportIdle

\* The call ends by an exception that leaves the function.
Raise(p) ==
    /\ tpc' = [tpc EXCEPT ![p] = "raised"]
    /\ UNCHANGED tRet

\* Lines 65-68, run without an await once the semaphore is acquired:
\* if os.path.exists(tmpdir): shutil.rmtree(tmpdir); os.makedirs(tmpdir,
\* exist_ok=True).  Both calls are before the try: an OSError of either
\* (a file that cannot be deleted, no permission, no space) leaves the call.
Prepare(p) ==
    /\ tpc[p] = "wait"
    /\ Cardinality(Running) < tLimit
    /\ \/ /\ tDir[tIds[p]] # "absent"
          /\ Raise(p)
          /\ tDirAtExit' = [tDirAtExit EXCEPT ![p] = TRUE]
          /\ UNCHANGED <<tDir, tFresh>>
       \/ /\ Raise(p)
          /\ tDir' = [tDir EXCEPT ![tIds[p]] = "absent"]
          /\ tDirAtExit' = [tDirAtExit EXCEPT ![p] = FALSE]
          /\ UNCHANGED tFresh
       \/ /\ tDir' = [tDir EXCEPT ![tIds[p]] = "empty"]
          /\ tFresh' = [tFresh EXCEPT ![p] = TRUE]
          /\ tpc' = [tpc EXCEPT ![p] = "tool"]
          /\ UNCHANGED <<tRet, tDirAtExit>>
    /\ UNCHANGED <<tLimit, tIds, batchVars, normVars, selVars, chainVars, stampVars, cliVars, exportVars>>

\* The tool (yt-dlp, in a thread or a child process) while the task awaits
\* it: it writes the subtitle files under tmpdir, making the directory if it
\* is not there, or writes nothing (no captions, the download refused), or
\* fails with an exception (DownloadError in fetch_transcript_lib).
RunTool(p) ==
    /\ tpc[p] = "tool"
    /\ \/ /\ tDir' = [tDir EXCEPT ![tIds[p]] = "subs"]
          /\ tpc' = [tpc EXCEPT ![p] = "tooldone"]
       \/ /\ tpc' = [tpc EXCEPT ![p] = "tooldone"]
          /\ UNCHANGED tDir
       \/ /\ tpc' = [tpc EXCEPT ![p] = "toolraised"]
          /\ UNCHANGED tDir
    /\ UNCHANGED <<tLimit, tIds, tFresh, tRet, tDirAtExit, batchVars, normVars, selVars, chainVars, stampVars, cliVars, exportVars>>

\* finally: if os.path.exists(tmpdir): shutil.rmtree(tmpdir,
\* ignore_errors=True), and the return.  The removal races with the tool of
\* another pipeline writing into the same directory: the directory is gone or
\* is left (rmdir of a directory that got a new file fails and is ignored).
FinallyReturn(p, ret) ==
    /\ tpc' = [tpc EXCEPT ![p] = "returned"]
    /\ tRet' = [tRet EXCEPT ![p] = ret]
    /\ \E left \in IF tDir[tIds[p]] # "absent"
                      /\ \E q \in OthersOnDir(p) : tpc[q] = "tool"
                   THEN {"absent", tDir[tIds[p]]}
                   ELSE {"absent"} :
           /\ tDir' = [tDir EXCEPT ![tIds[p]] = left]
           /\ tDirAtExit' = [tDirAtExit EXCEPT ![p] = (left # "absent")]

\* The await of the tool returns; lines 88-100 run without an await:
\* os.listdir(tmpdir) raises when the directory is gone (caught, line 104);
\* no matching file gives None; a matching file is opened next.
ListFiles(p) ==
    /\ tpc[p] \in {"tooldone", "toolraised"}
    /\ IF tpc[p] = "tooldone" /\ tDir[tIds[p]] = "subs"
       THEN /\ tpc' = [tpc EXCEPT ![p] = "read"]
            /\ UNCHANGED <<tDir, tRet, tDirAtExit>>
       ELSE FinallyReturn(p, "None")
    /\ UNCHANGED <<tLimit, tIds, tFresh, batchVars, normVars, selVars, chainVars, stampVars, cliVars, exportVars>>

\* async with aiofiles.open(sub_file, "r") ...: content = await f.read();
\* return self.clean_vtt(content), real_title.  The open raises when the
\* file is gone, and the read may raise (caught, line 104).
ReadFile(p) ==
    /\ tpc[p] = "read"
    /\ \/ /\ tDir[tIds[p]] = "subs"
          /\ FinallyReturn(p, "transcript")
       \/ FinallyReturn(p, "None")
    /\ UNCHANGED <<tLimit, tIds, tFresh, batchVars, normVars, selVars, chainVars, stampVars, cliVars, exportVars>>

fetch_transcript_cli(p) ==
    \/ Prepare(p)
    \/ RunTool(p)
    \/ ListFiles(p)
    \/ ReadFile(p)

ScratchNext == \E p \in Pipes : fetch_transcript_cli(p)

SpecScratch == ScratchInit /\ [][ScratchNext]_vars

(***************************************************************************)
(*                    Claims on the external-tool strategy                 *)
(***************************************************************************)

\* C13 (as claimed): on every exit path of fetch_transcript_cli the scratch
\* directory was created fresh at the start of the call and does not exist
\* when the call ends.
C13_ScratchFreshAndRemoved ==
    \A p \in Pipes : tpc[p] \in Exited => (tFresh[p] /\ ~tDirAtExit[p])

\* C14 (as claimed): with a concurrency limit of at least 2, no two pipelines
\* are at the same time between creating and removing the same scratch
\* directory.
C14_ScratchExclusive ==
    tLimit >= 2 =>
        \A p, q \in Running : tIds[p] = tIds[q] => p = q

\* C20 (as claimed): fetch_transcript_cli never raises to its caller; every
\* failure of its steps ends in a returned None transcript.
C20_NeverRaises ==
    \A p \in Pipes : tpc[p] # "raised"

(***************************************************************************)
(*                     The timestamp computations                          *)
(*                                                                         *)
(* The start of a cue is a float of seconds (entry['start'], snippet.start) *)
(* or a count of milliseconds (tStartMs).  kStartMs is the offset on the    *)
(* millisecond grid; int(start) is kStartMs \div 1000.                      *)
(***************************************************************************)

\* The decimal digits of n >= 0.
RECURSIVE Digits(_)
Digits(n) == IF n < 10 THEN <<n>> ELSE Append(Digits(n \div 10), n % 10)

\* f"{n:02d}": the digits, with zeros on the left up to a width of two.
Pad2(n) == IF Len(Digits(n)) < 2 THEN <<0>> \o Digits(n) ELSE Digits(n)

\* f"[{h:02d}:{m:02d}:{s:02d}]"
Stamp(hms) == <<Pad2(hms[1]), Pad2(hms[2]), Pad2(hms[3])>>

\* ytsub_ag01 85 on the float start: int(start//3600), int((start%3600)//60),
\* int(start%60), with start = ms / 1000.
TimestampInlineOfFloat(ms) ==
    <<ms \div 3600000, (ms % 3600000) \div 60000, (ms % 60000) \div 1000>>

\* Offsets around the carries of the fields, up to more than a hundred hours.
StartOffsets ==
    {h * 3600000 + m * 60000 + sec * 1000 + f :
        h \in {0, 1, 23, 24, 100}, m \in {0, 1, 59}, sec \in {0, 1, 59}, f \in {0, 999}}

StampInit ==
    /\ kStartMs \in StartOffsets
    /\ kFn = ""
    /\ kFields = <<>>
    /\ BatchIdle
    /\ NormIdle
    /\ SelIdle
    /\ ChainIdle
    /\ ScratchIdle
    /\ CliIdle
    /\ ExportIdle

\* format_timestamp(entry['start']) of ytsub.py (80-84); the same two divmods
\* by 60 are in parse_json3 of ytsub_my22 (116-118).
FormatTimestamp ==
    /\ kFn = ""
    /\ kFn' = "format_timestamp"
    /\ kFields' = Stamp(format_timestamp(kStartMs \div 1000))
    /\ UNCHANGED <<kStartMs, batchVars, normVars, selVars, chainVars, scratchVars, cliVars, exportVars>>

\* ytsub_ag01 77-79: divmod(int(start), 3600), then divmod(m, 60).
StampBy3600 ==
    /\ kFn = ""
    /\ kFn' = "ag01.divmod"
    /\ kFields' = Stamp(TimestampBy3600(kStartMs \div 1000))
    /\ UNCHANGED <<kStartMs, batchVars, normVars, selVars, chainVars, scratchVars, cliVars, exportVars>>

\* ytsub_ag01 85: the // and % expression on the float.
StampInline ==
    /\ kFn = ""
    /\ kFn' = "ag01.inline"
    /\ kFields' = Stamp(TimestampInlineOfFloat(kStartMs))
    /\ UNCHANGED <<kStartMs, batchVars, normVars, selVars, chainVars, scratchVars, cliVars, exportVars>>

\* ytsub_my25 93-94: the arithmetic on tStartMs.
StampFromMs ==
    /\ kFn = ""
    /\ kFn' = "my25.ms"
    /\ kFields' = Stamp(TimestampFromMs(kStartMs))
    /\ UNCHANGED <<kStartMs, batchVars, normVars, selVars, chainVars, scratchVars, cliVars, exportVars>>

StampNext ==
    \/ FormatTimestamp
    \/ StampBy3600
    \/ StampInline
    \/ StampFromMs

SpecStamp == StampInit /\ [][StampNext]_vars

(***************************************************************************)
(*                         Claims on the timestamps                        *)
(***************************************************************************)

\* The number a sequence of decimal digits writes.
RECURSIVE DecimalValue(_)
DecimalValue(digits) ==
    IF digits = <<>> THEN 0
    ELSE 10 * DecimalValue(SubSeq(digits, 1, Len(digits) - 1)) + digits[Len(digits)]

\* A field is printed with at least two digits, with no zero in front beyond
\* the second digit, and writes the number n.
PrintedAs(digits, n) ==
    /\ Len(digits) >= 2
    /\ Len(digits) > 2 => digits[1] # 0
    /\ \A i \in 1..Len(digits) : digits[i] \in 0..9
    /\ DecimalValue(digits) = n

\* C18: for every start offset t >= 0, each of the timestamp computations
\* prints H = floor(t) div 3600 (not wrapped at 24), M = (floor(t) mod 3600)
\* div 60 and S = floor(t) mod 60, with M and S in 0..59, each field
\* zero-padded to at least two digits.
C18_TimestampFields ==
    kFn # "" =>
        LET t == kStartMs \div 1000
        IN  /\ PrintedAs(kFields[1], t \div 3600)
            /\ PrintedAs(kFields[2], (t % 3600) \div 60)
            /\ PrintedAs(kFields[3], t % 60)
            /\ DecimalValue(kFields[2]) \in 0..59
            /\ DecimalValue(kFields[3]) \in 0..59

\* C18's case: 100 h 59 min 59.999 s is printed 100:59:59.
C18_HundredHoursWitness ==
    /\ kFn # ""
    /\ kStartMs = 363599999
    /\ kFields = << <<1, 0, 0>>, <<5, 9>>, <<5, 9>> >>

(***************************************************************************)
(*      One pipeline of the external-tool strategy, to the export          *)
(*                                                                         *)
(* process_video of ytsub_my28 (145-165) and of ytsub_my31 (137-155) around *)
(* fetch_transcript_cli (63-109) and fetch_transcript_lib (57-113), for a   *)
(* pipeline that has its scratch directory to itself: what the tool wrote,  *)
(* which file is selected, what it parses to and whether the output file is *)
(* written.  A file name is a sequence of tokens, "sub.zh-Hant.vtt" being   *)
(* <<"sub", ".", "zh-Han", "t", ".", "vtt">>.                               *)
(***************************************************************************)
MaxFiles == 2

CliVariants == {"my28", "my31"}

NameOf(lang) ==
    IF lang = "zh-Hant" THEN <<"sub", ".", "zh-Han", "t", ".", "vtt">>
    ELSE IF lang = "zh-Hans" THEN <<"sub", ".", "zh-Han", "s", ".", "vtt">>
    ELSE <<"sub", ".", lang, ".", "vtt">>

\* --sub-langs zh-Hant,zh-TW,zh-HK,zh-Hans,en with --output <tmpdir>/sub
\* (ytsub_my28 80-82); 'subtitleslangs' of ytsub_my31 (69) has no zh-Hans.
SubLangs(v) ==
    IF v = "my28" THEN {"zh-Hant", "zh-TW", "zh-HK", "zh-Hans", "en"}
    ELSE {"zh-Hant", "zh-TW", "zh-HK", "en"}

\* What the tool may leave in the directory.
FileSets(v) ==
    {{NameOf(lang) : lang \in langs} :
        langs \in {L \in SUBSET SubLangs(v) : Cardinality(L) <= MaxFiles}}

\* os.listdir: the names of the directory, in an order of its own.
Listings(names) ==
    {l \in [1..Cardinality(names) -> names] : \A i, j \in 1..Len(l) : l[i] = l[j] => i = j}

\* patterns = [r'\.zh-Han[ts]', r'\.zh-TW', r'\.zh-HK', r'\.en'], each a
\* sequence of sets of tokens.
patterns ==
    << <<{"."}, {"zh-Han"}, {"t", "s"}>>,
       <<{"."}, {"zh-TW"}>>,
       <<{"."}, {"zh-HK"}>>,
       <<{"."}, {"en"}>> >>

\* re.search(pat, f, re.I): the pattern matches at some offset of the name.
Search(pat, f) ==
    \E o \in 0..(Len(f) - Len(pat)) : \A k \in 1..Len(pat) : f[o + k] \in pat[k]

\* f.endswith('.vtt') or f.endswith('.srt')
IsCaptionFile(f) ==
    /\ Len(f) >= 2
    /\ f[Len(f) - 1] = "."
    /\ f[Len(f)] \in {"vtt", "srt"}

\* for f in files: if <test>: sub_file = f; break  (<<>> when none passes)
FirstFile(listed, Test(_)) ==
    LET hits == {i \in 1..Len(listed) : Test(listed[i])}
    IN  IF hits = {} THEN <<>> ELSE listed[CHOOSE i \in hits : \A j \in hits : i <= j]

\* ytsub_my28 93-98: for pat in patterns: for f in files: ...
RECURSIVE SelectByPatterns(_, _)
SelectByPatterns(pats, listed) ==
    IF pats = <<>> THEN <<>>
    ELSE LET hit == FirstFile(listed, LAMBDA f : Search(Head(pats), f) /\ IsCaptionFile(f))
         IN  IF hit # <<>> THEN hit ELSE SelectByPatterns(Tail(pats), listed)

\* ytsub_my31 91-95: for lang in [...]: if f"sub.{lang}.vtt" in files: ...
RECURSIVE SelectByName(_, _)
SelectByName(langs, listed) ==
    IF langs = <<>> THEN <<>>
    ELSE IF \E i \in 1..Len(listed) : listed[i] = NameOf(Head(langs))
         THEN NameOf(Head(langs))
    ELSE SelectByName(Tail(langs), listed)

\* The file selected from the listing; ytsub_my31 97-101 falls back on the
\* first .vtt file of the listing.
SelectFile(v, listed) ==
    IF v = "my28" THEN SelectByPatterns(patterns, listed)
    ELSE LET named == SelectByName(<<"zh-Hant", "zh-TW", "zh-HK", "zh-Hans", "en">>, listed)
         IN  IF named # <<>> THEN named
             ELSE FirstFile(listed, LAMBDA f : f[Len(f) - 1] = "." /\ f[Len(f)] = "vtt")

\* The payloads a caption file may hold.
Contents ==
    { <<>>,
      <<<<A>>>>,
      <<<<Timing1>>>>,
      <<<<Timing1, Hello>>>>,
      <<<<Timing1, Hello>>, <<Timing2, A, B>>>> }

\* self.clean_vtt(content)
CleanVtt(v, blocks) ==
    IF v = "my28" THEN clean_vtt_my28(RenderVtt(blocks)) ELSE clean_vtt_my31(RenderVtt(blocks))

CliInit ==
    /\ xVariant \in CliVariants
    /\ xpc = "start"
    /\ xExit = 0
    /\ xFiles = {}
    /\ xListing = <<>>
    /\ xSub = <<>>
    /\ xContent = [read |-> FALSE]
    /\ xRet = [kind |-> ""]
    /\ xExported = FALSE
    /\ BatchIdle
    /\ NormIdle
    /\ SelIdle
    /\ ChainIdle
    /\ ScratchIdle
    /\ StampIdle
    /\ ExportIdle

\* Lines 65-68: the scratch directory is removed and made; an OSError of
\* either call leaves fetch_transcript_cli and process_video.
CliPrepare ==
    /\ xpc = "start"
    /\ xpc' \in {"tool", "raised"}
    /\ UNCHANGED <<xVariant, xExit, xFiles, xListing, xSub, xContent, xRet, xExported,
                   batchVars, normVars, selVars, chainVars, scratchVars, stampVars, exportVars>>

\* The tool runs.  ytsub_my28 73-85: run_ytdlp (check=False) hands back the
\* CompletedProcess, whose returncode line 85 does not read; the tool exits
\* non-zero when a download of one of the languages failed, whatever it wrote
\* before.  ytsub_my31 85-87: extract_info raises when the tool fails; the
\* except clause and the finally block end the call with None.
CliRunTool ==
    /\ xpc = "tool"
    /\ \E listed \in FileSets(xVariant), status \in {0, 1} :
           /\ xFiles' = listed
           /\ xExit' = status
           /\ IF xVariant = "my31" /\ status # 0
              THEN xpc' = "ret" /\ xRet' = None
              ELSE xpc' = "list" /\ UNCHANGED xRet
    /\ UNCHANGED <<xVariant, xListing, xSub, xContent, xExported,
                   batchVars, normVars, selVars, chainVars, scratchVars, stampVars, exportVars>>

\* files = os.listdir(tmpdir) and the selection of sub_file; without a
\* sub_file the call returns None.
CliListFiles ==
    /\ xpc = "list"
    /\ \E listed \in Listings(xFiles) :
           /\ xListing' = listed
           /\ xSub' = SelectFile(xVariant, listed)
           /\ IF SelectFile(xVariant, listed) = <<>>
              THEN xpc' = "ret" /\ xRet' = None
              ELSE xpc' = "read" /\ UNCHANGED xRet
    /\ UNCHANGED <<xVariant, xExit, xFiles, xContent, xExported,
                   batchVars, normVars, selVars, chainVars, scratchVars, stampVars, exportVars>>

\* content = await f.read(); return self.clean_vtt(content), real_title; an
\* error of the open or of the read is caught and None is returned.
CliReadFile ==
    /\ xpc = "read"
    /\ \/ /\ xRet' = None
          /\ UNCHANGED xContent
       \/ \E blocks \in Contents :
              /\ xContent' = [read |-> TRUE, blocks |-> blocks]
              /\ xRet' = Text(CleanVtt(xVariant, blocks))
    /\ xpc' = "ret"
    /\ UNCHANGED <<xVariant, xExit, xFiles, xListing, xSub, xExported,
                   batchVars, normVars, selVars, chainVars, scratchVars, stampVars, exportVars>>

\* process_video after the strategy returned: if not transcript: return;
\* else the output file is opened and written, or the write fails (caught).
CliExport ==
    /\ xpc = "ret"
    /\ xpc' = "done"
    /\ IF IsTranscript(xRet) THEN xExported' \in BOOLEAN ELSE xExported' = FALSE
    /\ UNCHANGED <<xVariant, xExit, xFiles, xListing, xSub, xContent, xRet,
                   batchVars, normVars, selVars, chainVars, scratchVars, stampVars, exportVars>>

CliNext ==
    \/ CliPrepare
    \/ CliRunTool
    \/ CliListFiles
    \/ CliReadFile
    \/ CliExport

SpecCli == CliInit /\ [][CliNext]_vars

(***************************************************************************)
(*                 Claims on the pipeline of the tool strategy             *)
(***************************************************************************)

\* The selected file was read and parsed to no cue.
ZeroCues == xContent.read /\ CleanVtt(xVariant, xContent.blocks) = <<>>

\* C24 (as claimed): fetch_transcript_cli of my28 reports a failure whenever
\* the tool's caption download exited non-zero, whenever no file matching the
\* patterns was produced and whenever the selected file parsed to zero cues;
\* the transcript is exported only when the tool exited zero and the selected
\* file parsed to at least one cue.
C24_FailureOnToolExit ==
    (xVariant = "my28" /\ xpc = "done") =>
        /\ (xExit # 0 \/ xSub = <<>> \/ ZeroCues) =>
               (~IsTranscript(xRet) /\ ~xExported)
        /\ xExported =>
               (xExit = 0 /\ xContent.read /\ ~ZeroCues)

\* The language of a caption file's name, and its rank: Traditional Chinese
\* (zh-Hant, zh-TW, zh-HK) before Simplified Chinese (zh-Hans) before English.
LangOf(f) == CHOOSE lang \in SubLangs("my28") : NameOf(lang) = f
PriorityOf(f) ==
    IF LangOf(f) \in {"zh-Hant", "zh-TW", "zh-HK"} THEN 1
    ELSE IF LangOf(f) = "zh-Hans" THEN 2
    ELSE 3

\* C25 (as claimed): among the caption files in the scratch directory, the
\* file selected by fetch_transcript_cli (my28) and fetch_transcript_lib
\* (my31) is one of the highest-priority language, whatever the order of the
\* directory listing.
C25_HighestPriorityFile ==
    (xpc \in {"read", "ret", "done"} /\ xListing # <<>>) =>
        /\ xSub \in xFiles
        /\ \A f \in xFiles : PriorityOf(xSub) <= PriorityOf(f)

(***************************************************************************)
(*        The pipelines, from the acquisition to the output file           *)
(*                                                                         *)
(* main and process_video of ytsub.py (117-161), ytsub_my22 (124-171) and   *)
(* ytsub_my28 (145-183), with the transcript that the acquisition returns   *)
(* and, for ytsub_my22, the httpx.AsyncClient that the pipelines share and  *)
(* that main closes in its finally block.                                  *)
(***************************************************************************)
ExportVariants == {"ytsub", "my22", "my28"}

\* asyncio.Semaphore(5) (ytsub.py 153), max_concurrent=2 (ytsub_my22 153),
\* max_concurrent=3 (ytsub_my28 172).
LimitOf(v) == IF v = "ytsub" THEN 5 ELSE IF v = "my22" THEN 2 ELSE 3

\* What an acquisition returns: None, the empty string (no line), a text.
Transcripts == {"None", "empty", "text"}

\* (mutant of IsTruthy: the test is 'transcript is not None')
IsTruthy_NotNone(transcript) == transcript # "None"

\* if not transcript: return (ytsub_my22 129, ytsub_my28 151); if transcript:
\* (ytsub.py 122).  None and '' are false.
IsTruthy(transcript) == transcript = "text"

EHolding == {"acquire", "get", "open", "write"}
ETerminal == {"nosub", "exported", "writeerr", "raised", "cancelled"}

ExportInit ==
    /\ eVariant \in ExportVariants
    /\ epc = [i \in Videos |-> "wait"]
    /\ eSem = LimitOf(eVariant)
    /\ eRet = [i \in Videos |-> ""]
    /\ eFile = [i \in Videos |-> "absent"]
    /\ eClient = IF eVariant = "my22" THEN "open" ELSE ""
    /\ eMain = "gather"
    /\ eRefused = [i \in Videos |-> FALSE]
    /\ BatchIdle
    /\ NormIdle
    /\ SelIdle
    /\ ChainIdle
    /\ ScratchIdle
    /\ StampIdle
    /\ CliIdle

\* async with self.semaphore (async with semaphore in sem_process of ytsub.py)
EAcquire(i) ==
    /\ epc[i] = "wait"
    /\ eSem > 0
    /\ eSem' = eSem - 1
    /\ epc' = [epc EXCEPT ![i] = "acquire"]
    /\ UNCHANGED <<eVariant, eRet, eFile, eClient, eMain, eRefused, batchVars, normVars, selVars, chainVars, scratchVars, stampVars, cliVars>>

\* The acquisition hands transcript to process_video, which goes on to the
\* output file when the transcript is true and returns when it is not.
EReturn(i, transcript) ==
    /\ eRet' = [eRet EXCEPT ![i] = transcript]
    /\ IF IsTruthy(transcript)
       THEN epc' = [epc EXCEPT ![i] = "open"] /\ UNCHANGED eSem
       ELSE epc' = [epc EXCEPT ![i] = "nosub"] /\ eSem' = eSem + 1

\* transcript = await self.fetch_transcript(...) / get_transcript(...) /
\* fetch_transcript_cli(...) returns.  In ytsub_my22 the first await of
\* fetch_transcript is extract_info in the executor (71): it fails or finds
\* no subtitles (None), or the task goes on, without an await in between, to
\* self.http_client.get(sub_url) (104): on a closed client httpx raises
\* RuntimeError, which line 107 turns into None; on an open one the request
\* is sent.  fetch_transcript_cli of ytsub_my28 may raise before its try
\* block (67-68).
EFetch(i) ==
    /\ epc[i] = "acquire"
    /\ \/ /\ eVariant = "my22"
          /\ eClient = "open"
          /\ epc' = [epc EXCEPT ![i] = "get"]
          /\ UNCHANGED <<eSem, eRet, eRefused>>
       \/ /\ eVariant = "my22"
          /\ eClient = "closed"
          /\ EReturn(i, "None")
          /\ eRefused' = [eRefused EXCEPT ![i] = TRUE]
       \/ /\ eVariant = "my22"
          /\ EReturn(i, "None")
          /\ UNCHANGED eRefused
       \/ /\ eVariant # "my22"
          /\ \E transcript \in Transcripts : EReturn(i, transcript)
          /\ UNCHANGED eRefused
       \/ /\ eVariant = "my28"
          /\ epc' = [epc EXCEPT ![i] = "raised"]
          /\ eSem' = eSem + 1
          /\ UNCHANGED <<eRet, eRefused>>
    /\ UNCHANGED <<eVariant, eFile, eClient, eMain, batchVars, normVars, selVars, chainVars, scratchVars, stampVars, cliVars>>

\* The await of the GET ends (ytsub_my22 104-108): None when it raised (an
\* error of the network, the connection closed under it) or the status is
\* not 200, else what parse_json3 made of the payload.
EHttpGet(i) ==
    /\ epc[i] = "get"
    /\ \E transcript \in Transcripts : EReturn(i, transcript)
    /\ UNCHANGED <<eVariant, eFile, eClient, eMain, eRefused, batchVars, normVars, selVars, chainVars, scratchVars, stampVars, cliVars>>

\* Where an exception of the write ends: ytsub_my28 160-165 catches it;
\* ytsub.py 127-128 and ytsub_my22 137-139 let it leave the task.
EWriteFailure(v) == IF v = "my28" THEN "writeerr" ELSE "raised"

\* open(filename, "w") / aiofiles.open(full_path, "w"): the file is created,
\* or an OSError creates nothing.
EOpen(i) ==
    /\ epc[i] = "open"
    /\ \/ /\ epc' = [epc EXCEPT ![i] = "write"]
          /\ eFile' = [eFile EXCEPT ![i] = "empty"]
          /\ UNCHANGED eSem
       \/ /\ epc' = [epc EXCEPT ![i] = EWriteFailure(eVariant)]
          /\ eSem' = eSem + 1
          /\ UNCHANGED eFile
    /\ UNCHANGED <<eVariant, eRet, eClient, eMain, eRefused, batchVars, normVars, selVars, chainVars, scratchVars, stampVars, cliVars>>

\* f.write(content) and the close of the file.
EWrite(i) ==
    /\ epc[i] = "write"
    /\ \/ /\ epc' = [epc EXCEPT ![i] = "exported"]
          /\ eFile' = [eFile EXCEPT ![i] = "complete"]
       \/ /\ epc' = [epc EXCEPT ![i] = EWriteFailure(eVariant)]
          /\ UNCHANGED eFile
    /\ eSem' = eSem + 1
    /\ UNCHANGED <<eVariant, eRet, eClient, eMain, eRefused, batchVars, normVars, selVars, chainVars, scratchVars, stampVars, cliVars>>

\* await asyncio.gather(*tasks) returns when every task has returned; main
\* of ytsub_my22 goes on to its finally block.
EGatherReturn ==
    /\ eMain = "gather"
    /\ \A i \in Videos : epc[i] \in ETerminal \ {"raised"}
    /\ eMain' = IF eVariant = "my22" THEN "finally" ELSE "returned"
    /\ UNCHANGED <<eVariant, epc, eSem, eRet, eFile, eClient, eRefused, batchVars, normVars, selVars, chainVars, scratchVars, stampVars, cliVars>>

\* gather hands the first exception of a task to main while the other tasks
\* run on: main of ytsub_my22 goes to its finally block with the exception
\* (167-171), main of ytsub.py catches and prints it (160-161) and returns,
\* main of ytsub_my28 ends by it.
EGatherRaise ==
    /\ eMain = "gather"
    /\ \E i \in Videos : epc[i] = "raised"
    /\ eMain' = IF eVariant = "my22" THEN "finally_raised"
                ELSE IF eVariant = "ytsub" THEN "returned" ELSE "raised"
    /\ UNCHANGED <<eVariant, epc, eSem, eRet, eFile, eClient, eRefused, batchVars, normVars, selVars, chainVars, scratchVars, stampVars, cliVars>>

\* finally: await downloader.close() (ytsub_my22 170-171, 142-143):
\* AsyncClient.aclose marks the client closed at once, then awaits the close
\* of the pooled connections, during which the other tasks run.
ECloseClient ==
    /\ eMain \in {"finally", "finally_raised"}
    /\ eClient' = "closed"
    /\ eMain' = IF eMain = "finally" THEN "closing" ELSE "closing_raised"
    /\ UNCHANGED <<eVariant, epc, eSem, eRet, eFile, eRefused, batchVars, normVars, selVars, chainVars, scratchVars, stampVars, cliVars>>

\* The await of close() returns and main ends.
ECloseDone ==
    /\ eMain \in {"closing", "closing_raised"}
    /\ eMain' = IF eMain = "closing" THEN "returned" ELSE "raised"
    /\ UNCHANGED <<eVariant, epc, eSem, eRet, eFile, eClient, eRefused, batchVars, normVars, selVars, chainVars, scratchVars, stampVars, cliVars>>

\* asyncio.run, once main has ended, cancels every task still pending.
ECancel(i) ==
    /\ eMain \in {"returned", "raised"}
    /\ epc[i] \notin ETerminal
    /\ epc' = [epc EXCEPT ![i] = "cancelled"]
    /\ eSem' = IF epc[i] \in EHolding THEN eSem + 1 ELSE eSem
    /\ \/ /\ epc[i] \in {"wait", "acquire", "get"}
          /\ UNCHANGED eFile
       \/ /\ epc[i] = "open"
          /\ \E f \in {"absent", "empty"} : eFile' = [eFile EXCEPT ![i] = f]
       \/ /\ epc[i] = "write"
          /\ \E f \in {"empty", "complete"} : eFile' = [eFile EXCEPT ![i] = f]
    /\ UNCHANGED <<eVariant, eRet, eClient, eMain, eRefused, batchVars, normVars, selVars, chainVars, scratchVars, stampVars, cliVars>>

ExportNext ==
    \/ \E i \in Videos : EAcquire(i)
    \/ \E i \in Videos : EFetch(i)
    \/ \E i \in Videos : EHttpGet(i)
    \/ \E i \in Videos : EOpen(i)
    \/ \E i \in Videos : EWrite(i)
    \/ EGatherReturn
    \/ EGatherRaise
    \/ ECloseClient
    \/ ECloseDone
    \/ \E i \in Videos : ECancel(i)

SpecExport == ExportInit /\ [][ExportNext]_vars

(***************************************************************************)
(*                        Claims on the pipelines                          *)
(***************************************************************************)

\* C28 (as claimed): the pipelines of my22 share no mutable state but the
\* gate: no pipeline's GET of the payload runs on the shared HTTP client
\* after main's finally block has closed it, so that the failure of one
\* pipeline does not change the outcome of another.
C28_NoFetchOnClosedClient ==
    eVariant = "my22" => \A i \in Videos : ~eRefused[i]

\* C30: in every interleaving, the output file of an identifier is created
\* or written only after the acquisition for that identifier has returned a
\* non-empty transcript; an acquisition that failed (None) or gave no line
\* (the empty string) leaves no output file for the identifier.
C30_FileOnlyAfterTranscript ==
    \A i \in Videos :
        /\ eFile[i] # "absent" => eRet[i] = "text"
        /\ eRet[i] \in {"None", "empty"} => (eFile[i] = "absent" /\ epc[i] = "nosub")
        /\ epc[i] \in {"open", "write", "exported"} => eRet[i] = "text"

\* C30's case: one identifier is exported, the acquisition of a second has
\* returned the empty string and of a third None, and neither has a file.
C30_ExportedBesideFailedWitness ==
    \E i, j, k \in Videos :
        /\ epc[i] = "exported" /\ eFile[i] = "complete"
        /\ eRet[j] = "empty" /\ eFile[j] = "absent"
        /\ eRet[k] = "None" /\ eFile[k] = "absent"

====
